---- MODULE Spec2Model ----
(***************************************************************************)
(* A model of the harvesting and scoring pipeline of src/fetch.py:         *)
(*   - DatabaseManager._calculate_initial_relevance and                    *)
(*     _basic_content_scoring (specification SpecScore),                   *)
(*   - DatabaseManager.get_embedding and its two cache tiers               *)
(*     (specifications SpecEmb and SpecEmbSeq),                            *)
(*   - TwitterFetcher.fetch_user_tweets, one call in detail                *)
(*     (specification SpecFetch),                                          *)
(*   - concurrent callers of TwitterFetcher.fetch_user_tweets sharing the  *)
(*     semaphore and the browser session (specification SpecConc).         *)
(*                                                                         *)
(* Numbers.  Scores are Python floats in the source.  The model keeps them *)
(* as exact rationals <<numerator, denominator>>; distances and weights    *)
(* are in hundredths, heuristic scores in tenths.  Floating-point rounding *)
(* (a few ulps) is outside the model.                                      *)
(*                                                                         *)
(* Strings.  The source only asks whether a keyword occurs in a lowered    *)
(* string.  A string is modelled by the set of words occurring in it, each *)
(* word with the case it is written in.                                    *)
(***************************************************************************)
EXTENDS Integers, Sequences, FiniteSets, TLC

VARIABLES
    \* ---- _calculate_initial_relevance (SpecScore) ----
    s_item,      \* the item being scored: [content, source_url]
    s_db,        \* content_items rows as seen from item.embedding: <<feedback, distance>>
    s_pc,        \* "start" | "done"
    s_rows,      \* similar_ratings, the rows conn.fetch returned
    s_path,      \* which return statement produced the score
    s_score,     \* the returned score, a rational <<num, den>>
    \* ---- get_embedding (SpecEmb, SpecEmbSeq) ----
    e_mem,       \* self._embedding_cache: text_hash -> vector, "none" when absent
    e_store,     \* table embedding_cache: text_hash -> vector, "none" when absent
    e_pc,        \* per caller: position in get_embedding
    e_text,      \* per caller: the argument text
    e_emb,       \* per caller: the local variable embedding
    e_ret,       \* per caller: [text, outcome, value] of its last completed call
    e_before,    \* per caller: e_ret as it was when the current call began
    e_ncalls,    \* calls of get_embedding begun so far
    \* ---- one call of TwitterFetcher.fetch_user_tweets (SpecFetch) ----
    f_browser,          \* self.browser: "none" | "set"
    f_context,          \* self.context: "none" | "set"
    f_has_db,           \* self.db_manager is not None
    f_max_tweets,       \* the argument max_tweets
    f_pc,               \* position in fetch_user_tweets / _fetch_user_tweets_impl
    f_page,             \* the page of this call: "none" | "open" | "closed"
    f_try,              \* index of the url or selector being tried
    f_items,            \* items
    f_seen,             \* seen_content
    f_tweet_count,      \* tweet_count
    f_scroll_attempts,  \* scroll_attempts
    f_remaining,        \* nodes of the list tweets not yet visited by the for loop
    f_cur,              \* the item handed to store_content_item
    f_pending,          \* an exception is propagating through the finally block
    f_fault,            \* the site of the last failure
    f_event,            \* what the for loop did with the last node
    f_result,           \* "none" | "returned" | "raised"
    f_hist,             \* what the call has done to the page and the store so far
    \* ---- concurrent calls of fetch_user_tweets on one instance (SpecConc) ----
    c_sem,              \* the value of self._semaphore
    c_browser,          \* self.browser: 0 for None, else the k-th browser launched
    c_context,          \* self.context: 0 for None, else the k-th context created
    c_launches,         \* browsers launched so far
    c_contexts,         \* contexts created so far
    c_scripted,         \* the contexts whose init script has been added
    c_pc,               \* per caller: position
    c_own,              \* per caller: the context it created (0: none)
    c_pagectx,          \* per caller: the context its new_page was called on (0: none)
    c_pagefull,         \* per caller: that context had its init script at that moment
    c_pages,            \* pages open
    \* ---- store_content_item called by a harvester (SpecStore) ----
    t_rows,             \* table content_items: id -> row, NoRow when absent
    t_pc,               \* position in store_content_item
    t_item,             \* the argument item
    t_emb,              \* item.embedding
    t_query,            \* the vector the nearest-neighbour query was issued with
    t_path,             \* which return statement of the scorer produced the score
    t_score,            \* item.relevance_score, a rational <<num, den>>
    t_prev,             \* the row of item.id as it was when the insert was executed
    t_result,           \* "none" | "true" | "false" | "raised"
    t_fault,            \* the site of the failure of this call
    t_items,            \* the harvester's list items (ids)
    t_nstores,          \* calls of store_content_item begun so far
    \* ---- get_high_quality_content (SpecQuery) ----
    q_table,            \* table content_items: the rows, as a sequence
    q_hours,            \* the argument hours
    q_min_score,        \* the argument min_score, in tenths
    q_limit,            \* the argument limit
    q_pc,               \* "call" | "done"
    q_result,           \* the returned list
    q_failed,           \* acquire or fetch raised
    \* ---- EnhancedContentItem.__init__ / __post_init__ (SpecItem) ----
    i_args,             \* per construction: the constructor's arguments
    i_obj,              \* per construction: the object after __post_init__, or NoObject
    \* ---- one run of enhanced_fetch_all_sources (SpecRun) ----
    r_args,                 \* the arguments twitter_usernames and rss_feeds
    r_pc,                   \* position in enhanced_fetch_all_sources
    r_db_pool,              \* db_manager.db_pool: "none" | "open" | "closed"
    r_twitter_usernames,    \* twitter_usernames after line 648
    r_rss_feeds,            \* rss_feeds after line 649
    r_idx,                  \* index of the handle or feed of the current iteration
    r_browser,              \* twitter_fetcher.browser: "none" | "set" | "closed"
    r_context,              \* twitter_fetcher.context: "none" | "set" | "closed"
    r_all_items,            \* all_items: the source of each item
    r_stats,                \* stats
    r_high_quality_items,   \* high_quality_items: "unset" | "rows" | "empty"
    r_pending,              \* an exception is propagating through the finally block
    r_attempts,             \* the harvests awaited so far, with their outcomes
    r_ops,                  \* the kinds of store and provider operations made so far
    r_faults,               \* the sites that have raised or failed so far
    r_result,               \* "none" | "returned" | "raised"
    \* ---- one call of TwitterFetcher._auto_categorize (SpecCat) ----
    k_content,              \* the argument content
    k_author,               \* the argument author
    k_category,             \* the returned ContentCategory, "none" before the call
    \* ---- one call of RSSFetcher.fetch_feed_items (SpecFeed) ----
    d_max_items,            \* the argument max_items
    d_has_db,               \* self.db_manager is set
    d_pc,                   \* position of the call ("off" when idle)
    d_n,                    \* len(feed.entries), -1 before the feed is parsed
    d_entries,              \* feed.entries[:max_items], entries named by their place
    d_i,                    \* index of the for loop into that slice
    d_items,                \* items
    d_log,                  \* the entries the loop is done with, with their outcomes
    d_result,               \* "none" | "returned" | "raised"
    \* ---- the row of one id in content_items (SpecUpsert) ----
    u_pc,                   \* "idle" | "insert" ("off" when idle for good)
    u_row,                  \* the row, NoContentRow while absent
    u_item,                 \* the item of the latest store, NoContentItem before it
    u_first,                \* the item whose insert created the row
    u_now,                  \* the clock, in hours
    u_nstores               \* the stores executed so far

scoreVars == <<s_item, s_db, s_pc, s_rows, s_path, s_score>>

embVars == <<e_mem, e_store, e_pc, e_text, e_emb, e_ret, e_before, e_ncalls>>

fetchVars ==
    <<f_browser, f_context, f_has_db, f_max_tweets, f_pc, f_page, f_try, f_items, f_seen,
      f_tweet_count, f_scroll_attempts, f_remaining, f_cur, f_pending, f_fault, f_event,
      f_result, f_hist>>

concVars ==
    <<c_sem, c_browser, c_context, c_launches, c_contexts, c_scripted, c_pc, c_own, c_pagectx,
      c_pagefull, c_pages>>

storeVars ==
    <<t_rows, t_pc, t_item, t_emb, t_query, t_path, t_score, t_prev, t_result, t_fault,
      t_items, t_nstores>>

queryVars == <<q_table, q_hours, q_min_score, q_limit, q_pc, q_result, q_failed>>

itemVars == <<i_args, i_obj>>

runVars ==
    <<r_args, r_pc, r_db_pool, r_twitter_usernames, r_rss_feeds, r_idx, r_browser, r_context,
      r_all_items, r_stats, r_high_quality_items, r_pending, r_attempts, r_ops, r_faults,
      r_result>>

catVars == <<k_content, k_author, k_category>>

feedVars ==
    <<d_max_items, d_has_db, d_pc, d_n, d_entries, d_i, d_items, d_log, d_result>>

upsertVars == <<u_pc, u_row, u_item, u_first, u_now, u_nstores>>

vars ==
    <<scoreVars, embVars, fetchVars, concVars, storeVars, queryVars, itemVars, runVars,
      catVars, feedVars, upsertVars>>

(***************************************************************************)
(* Bounds of the model.                                                    *)
(***************************************************************************)
\* The most rows of content_items that carry a distance to the scored item.
MaxRated == 6

\* The concurrent callers of get_embedding, and the calls they make in all.
NumEmbCallers == 2

MaxEmbCalls == 3

\* The most nodes query_selector_all returns, and the largest max_tweets.
MaxNodes == 3

MaxTweets == 2

\* config.max_concurrent, the size of the semaphore (FetcherConfig's default is
\* 3), and the concurrent callers of fetch_user_tweets on one TwitterFetcher.
MaxConcurrent == 2

NumCallers == 3

(***************************************************************************)
(* The part of the state a specification does not exercise stays idle.     *)
(***************************************************************************)
ScoreIdle ==
    /\ s_item = [content |-> {}, source_url |-> {}]
    /\ s_db = <<>>
    /\ s_pc = "off"
    /\ s_rows = <<>>
    /\ s_path = "none"
    /\ s_score = <<0, 1>>

\* The record of a call that has not touched the page: the urls navigated to,
\* the selectors awaited, the kinds of page and store operations begun, the
\* number of page.evaluate calls, the texts store_content_item accepted, the
\* texts of the items appended to the list, in the order of the appends, the
\* texts handed to store_content_item, the number of page.close() calls.
NoHistory ==
    [nav |-> <<>>, waits |-> <<>>, ops |-> {}, scrolls |-> 0, stored |-> <<>>, emitted |-> <<>>,
     attempted |-> <<>>, closes |-> 0]

FetchIdle ==
    /\ f_browser = "none"
    /\ f_context = "none"
    /\ f_has_db = FALSE
    /\ f_max_tweets = 0
    /\ f_pc = "off"
    /\ f_hist = NoHistory
    /\ f_page = "none"
    /\ f_try = 0
    /\ f_items = <<>>
    /\ f_seen = {}
    /\ f_tweet_count = 0
    /\ f_scroll_attempts = 0
    /\ f_remaining = 0
    /\ f_cur = "none"
    /\ f_pending = FALSE
    /\ f_fault = "none"
    /\ f_event = "none"
    /\ f_result = "none"

ConcIdle ==
    /\ c_sem = 0
    /\ c_browser = 0
    /\ c_context = 0
    /\ c_launches = 0
    /\ c_contexts = 0
    /\ c_scripted = {}
    /\ c_pc = <<>>
    /\ c_own = <<>>
    /\ c_pagectx = <<>>
    /\ c_pagefull = <<>>
    /\ c_pages = 0

StoreIdle ==
    /\ t_rows = <<>>
    /\ t_pc = "off"
    /\ t_item = <<>>
    /\ t_emb = "none"
    /\ t_query = "none"
    /\ t_path = "none"
    /\ t_score = <<0, 1>>
    /\ t_prev = <<>>
    /\ t_result = "none"
    /\ t_fault = "none"
    /\ t_items = <<>>
    /\ t_nstores = 0

QueryIdle ==
    /\ q_table = <<>>
    /\ q_hours = 0
    /\ q_min_score = 0
    /\ q_limit = 0
    /\ q_pc = "off"
    /\ q_result = <<>>
    /\ q_failed = FALSE

ItemIdle ==
    /\ i_args = <<>>
    /\ i_obj = <<>>


\* stats as line 655-660 builds it.
ZeroStats == [twitter_items |-> 0, rss_items |-> 0, total_stored |-> 0]

\* An argument that is None.
NoneArg == [none |-> TRUE, list |-> <<>>]

RunIdle ==
    /\ r_args = [twitter_usernames |-> NoneArg, rss_feeds |-> NoneArg]
    /\ r_pc = "off"
    /\ r_db_pool = "none"
    /\ r_twitter_usernames = <<>>
    /\ r_rss_feeds = <<>>
    /\ r_idx = 0
    /\ r_browser = "none"
    /\ r_context = "none"
    /\ r_all_items = <<>>
    /\ r_stats = ZeroStats
    /\ r_high_quality_items = "unset"
    /\ r_pending = FALSE
    /\ r_attempts = <<>>
    /\ r_ops = {}
    /\ r_faults = {}
    /\ r_result = "none"

CatIdle ==
    /\ k_content = {}
    /\ k_author = {}
    /\ k_category = "off"

FeedIdle ==
    /\ d_max_items = 0
    /\ d_has_db = FALSE
    /\ d_pc = "off"
    /\ d_n = -1
    /\ d_entries = <<>>
    /\ d_i = 0
    /\ d_items = <<>>
    /\ d_log = <<>>
    /\ d_result = "none"

\* No row with the id in content_items; no item built yet.
NoContentRow == [present |-> FALSE]

NoContentItem == [id |-> "none"]

UpsertIdle ==
    /\ u_pc = "off"
    /\ u_row = NoContentRow
    /\ u_item = NoContentItem
    /\ u_first = NoContentItem
    /\ u_now = 0
    /\ u_nstores = 0

\* The specifications that follow leave store_content_item,
\* get_high_quality_content and the item constructor idle.
RestIdle ==
    StoreIdle /\ QueryIdle /\ ItemIdle /\ RunIdle /\ CatIdle /\ FeedIdle /\ UpsertIdle

(***************************************************************************)
(* Rationals.                                                              *)
(***************************************************************************)
RatEq(a, b) == a[1] * b[2] = b[1] * a[2]

RatLeq(a, b) == a[1] * b[2] <= b[1] * a[2]

Tenths(n) == <<n, 10>>

Min(a, b) == IF a < b THEN a ELSE b

Max(a, b) == IF a > b THEN a ELSE b

(***************************************************************************)
(* Strings as sets of occurring words.  A word is <<letters, case>>.       *)
(***************************************************************************)
Lower(str) == {<<w[1], "lower">> : w \in str}

Occurs(word, lowered) == <<word, "lower">> \in lowered

(***************************************************************************)
(* DatabaseManager._basic_content_scoring                                  *)
(***************************************************************************)
quality_words == {"breakthrough", "research", "analysis", "report", "study", "development"}

credible_domains == {"techcrunch", "wired", "reuters", "bloomberg"}

noise_words == {"promo", "discount", "webinar", "limited time", "buy now", "click here"}

\* quality_boost in tenths: +0.1 per quality word in content_lower, +0.2 when
\* any credible domain occurs in source_url.lower().
QualityBoost(item) ==
    Cardinality({w \in quality_words : Occurs(w, Lower(item.content))})
    + (IF \E d \in credible_domains : Occurs(d, Lower(item.source_url)) THEN 2 ELSE 0)

\* A slip: a noise word costs 0.1, as a quality word earns.
NoisePenalty_tenth(item) ==
    Cardinality({w \in noise_words : <<w, "lower">> \in {<<x[1], "lower">> : x \in item.content}})

\* noise_penalty in tenths: 0.2 per noise word in content_lower.
NoisePenalty(item) ==
    2 * Cardinality({w \in noise_words : Occurs(w, Lower(item.content))})

base_score == 5

\* A slip: the final score is returned unclamped.
ClampScore_unclamped(final_score) == final_score

\* max(0.1, min(1.0, final_score)), in tenths.
ClampScore(final_score) == Max(1, Min(10, final_score))

BasicContentScoring(item) ==
    ClampScore(base_score + QualityBoost(item) - NoisePenalty(item))

(***************************************************************************)
(* The nearest-neighbour query of _calculate_initial_relevance.            *)
(* A row of content_items is seen through the two columns the query reads: *)
(* user_feedback (rated = FALSE models NULL) and the distance of its       *)
(* embedding to item.embedding, in hundredths.                             *)
(***************************************************************************)
Row(fb, isRated, d) == [user_feedback |-> fb, rated |-> isRated, distance |-> d]

\* The kinds of rows the model draws the table from, nearest first.
RowKinds ==
    << Row(1, TRUE, 10), Row(-1, TRUE, 10), Row(0, FALSE, 10),
       Row(1, TRUE, 20), Row(0, TRUE, 20), Row(1, TRUE, 30) >>

\* WHERE (embedding <-> $1) < 0.3, in hundredths.
Radius == 30

\* LIMIT 5
NeighborLimit == 5

\* WHERE user_feedback IS NOT NULL AND (embedding <-> $1) < 0.3
InRadius(row) == row.rated /\ row.distance < Radius

Matching(db) == SelectSeq(db, InRadius)

RECURSIVE PickFrom(_, _, _)
PickFrom(seq, I, i) ==
    IF i > Len(seq) THEN <<>>
    ELSE (IF i \in I THEN <<seq[i]>> ELSE <<>>) \o PickFrom(seq, I, i + 1)

\* ORDER BY distance LIMIT 5: the index sets of the matching rows the store may
\* return.  Rows at the same distance are returned in an order, and cut off at
\* the limit, as the store pleases.
NearestChoices(m) ==
    {I \in SUBSET (1..Len(m)) :
        /\ Cardinality(I) = Min(NeighborLimit, Len(m))
        /\ \A i \in I : \A j \in (1..Len(m)) \ I : m[i].distance <= m[j].distance}

\* The rows conn.fetch may return for the table db (which is kept nearest first).
SimilarRatings(db) == {PickFrom(Matching(db), I, 1) : I \in NearestChoices(Matching(db))}

\* A slip: every neighbour weighs the same.
Weight_unweighted(row) == 100

\* weight = 1.0 - row['distance'], in hundredths.
Weight(row) == 100 - row.distance

\* score = 1.0 if row['user_feedback'] > 0 else 0.0
Label(row) == IF row.user_feedback > 0 THEN 1 ELSE 0

\* The loop over similar_ratings: <<total_score, total_weight>> after the rows.
RECURSIVE Accumulate(_, _)
Accumulate(rows, acc) ==
    IF rows = <<>> THEN acc
    ELSE Accumulate(Tail(rows),
                    << acc[1] + Label(Head(rows)) * Weight(Head(rows)),
                       acc[2] + Weight(Head(rows)) >>)

\* What _calculate_initial_relevance returns when acquire and fetch succeed and
\* fetch returns rows: [path, score].
RelevanceOf(item, rows) ==
    LET acc == Accumulate(rows, <<0, 0>>)
    IN  IF rows # <<>> /\ acc[2] > 0
        THEN [path |-> "knn", score |-> acc]
        ELSE [path |-> "heuristic", score |-> Tenths(BasicContentScoring(item))]

\* A slip: the except branch returns 0.0.
ExceptScore_zero == <<0, 10>>

\* except Exception: return 0.5
ExceptScore == Tenths(5)

(***************************************************************************)
(* DatabaseManager.get_embedding.  Each caller is a coroutine; a step of   *)
(* the model is the code between two awaits.  The provider is an external  *)
(* service: it may fail, and it may answer two requests for the same text  *)
(* with different vectors.                                                 *)
(***************************************************************************)
EmbCallers == 1..NumEmbCallers

Texts == {"text_a", "text_b"}

Vectors == {"v1", "v2"}

\* [0.0] * 1536
ZeroVector == "zero"

\* hashlib.md5(text.encode()).hexdigest(): distinct digests for the sample texts.
TextHash(text) == CASE text = "text_a" -> "d41d8c" [] text = "text_b" -> "9e107d"

Hashes == {TextHash(t) : t \in Texts}

NoCall == [text |-> "none", outcome |-> "none", value |-> "none"]

\* The outcomes of a call in which the provider was requested.
ProviderOutcomes == {"generated", "provider_failed", "write_failed"}

EmbIdle ==
    /\ e_mem = [h \in Hashes |-> "none"]
    /\ e_store = [h \in Hashes |-> "none"]
    /\ e_pc = [p \in EmbCallers |-> "off"]
    /\ e_text = [p \in EmbCallers |-> "none"]
    /\ e_emb = [p \in EmbCallers |-> "none"]
    /\ e_ret = [p \in EmbCallers |-> NoCall]
    /\ e_before = [p \in EmbCallers |-> NoCall]
    /\ e_ncalls = 0

\* DatabaseManager.__init__: an empty in-process map.  The durable table
\* outlives the process and may already hold entries.
EmbInit ==
    /\ e_mem = [h \in Hashes |-> "none"]
    /\ e_store \in [Hashes -> Vectors \cup {"none"}]
    /\ e_pc = [p \in EmbCallers |-> "idle"]
    /\ e_text = [p \in EmbCallers |-> "none"]
    /\ e_emb = [p \in EmbCallers |-> "none"]
    /\ e_ret = [p \in EmbCallers |-> NoCall]
    /\ e_before = [p \in EmbCallers |-> NoCall]
    /\ e_ncalls = 0

\* The call of p ends: return value (or the exception) recorded.
EmbReturn(p, outcome, value) ==
    /\ e_ret' = [e_ret EXCEPT ![p] = [text |-> e_text[p], outcome |-> outcome, value |-> value]]
    /\ e_pc' = [e_pc EXCEPT ![p] = "idle"]
    /\ e_emb' = [e_emb EXCEPT ![p] = "none"]

\* A slip: the handler logs the error and falls off its end: None is returned.
ExceptEmbedding_none == "none"

\* Lines 171-174: except Exception: return [0.0] * 1536
ExceptEmbedding == ZeroVector

\* A slip: the handler memoizes the vector it returns.
ExceptMemo_cached(mem, h) == [mem EXCEPT ![h] = ZeroVector]

\* Lines 171-174: the handler logs and returns; self._embedding_cache is not
\* assigned.
ExceptMemo(mem, h) == mem

\* A slip: the generated embedding is returned without being put in the map.
MemoizeGenerated_skipped(mem, h, embedding) == mem

\* self._embedding_cache[text_hash] = embedding
MemoizeGenerated(mem, h, embedding) == [mem EXCEPT ![h] = embedding]

\* self._embedding_cache[text_hash] = cached
MemoizeCached(mem, h, cached) == [mem EXCEPT ![h] = cached]

\* INSERT INTO embedding_cache ... ON CONFLICT (text_hash) DO NOTHING
InsertEmbedding(store, h, embedding) ==
    IF store[h] = "none" THEN [store EXCEPT ![h] = embedding] ELSE store

\* Lines 135-139: the call begins; a hit in the in-process map returns at once.
EmbCallHitsMemory(p, text) ==
    /\ e_pc[p] = "idle"
    /\ e_ncalls < MaxEmbCalls
    /\ e_mem[TextHash(text)] # "none"
    /\ e_ncalls' = e_ncalls + 1
    /\ e_before' = [e_before EXCEPT ![p] = e_ret[p]]
    /\ e_text' = [e_text EXCEPT ![p] = text]
    /\ e_ret' = [e_ret EXCEPT ![p] =
                    [text |-> text, outcome |-> "hit_mem", value |-> e_mem[TextHash(text)]]]
    /\ UNCHANGED <<e_mem, e_store, e_pc, e_emb>>

\* Lines 135-142: the call begins, misses the map and awaits a connection.
EmbCallMissesMemory(p, text) ==
    /\ e_pc[p] = "idle"
    /\ e_ncalls < MaxEmbCalls
    /\ e_mem[TextHash(text)] = "none"
    /\ e_ncalls' = e_ncalls + 1
    /\ e_before' = [e_before EXCEPT ![p] = e_ret[p]]
    /\ e_text' = [e_text EXCEPT ![p] = text]
    /\ e_pc' = [e_pc EXCEPT ![p] = "read"]
    /\ UNCHANGED <<e_mem, e_store, e_emb, e_ret>>

\* Lines 142-149: the durable table has the hash: copied to the map, returned.
EmbReadHits(p) ==
    /\ e_pc[p] = "read"
    /\ e_store[TextHash(e_text[p])] # "none"
    /\ e_mem' = MemoizeCached(e_mem, TextHash(e_text[p]), e_store[TextHash(e_text[p])])
    /\ EmbReturn(p, "hit_db", e_store[TextHash(e_text[p])])
    /\ UNCHANGED <<e_store, e_text, e_before, e_ncalls>>

\* Lines 142-153: the durable table misses: the provider is requested.
EmbReadMisses(p) ==
    /\ e_pc[p] = "read"
    /\ e_store[TextHash(e_text[p])] = "none"
    /\ e_pc' = [e_pc EXCEPT ![p] = "provider"]
    /\ UNCHANGED <<e_mem, e_store, e_text, e_emb, e_ret, e_before, e_ncalls>>

\* Lines 142-145: acquire or fetchval raises, outside every try: the call raises.
EmbReadFails(p) ==
    /\ e_pc[p] = "read"
    /\ EmbReturn(p, "raised", "none")
    /\ UNCHANGED <<e_mem, e_store, e_text, e_before, e_ncalls>>

\* Lines 153-161: the provider answers; the insert is awaited.
EmbProviderAnswers(p, vector) ==
    /\ e_pc[p] = "provider"
    /\ e_emb' = [e_emb EXCEPT ![p] = vector]
    /\ e_pc' = [e_pc EXCEPT ![p] = "write"]
    /\ UNCHANGED <<e_mem, e_store, e_text, e_ret, e_before, e_ncalls>>

\* Lines 153, 171-174: the provider fails: the zero vector is returned.
EmbProviderFails(p) ==
    /\ e_pc[p] = "provider"
    /\ e_mem' = ExceptMemo(e_mem, TextHash(e_text[p]))
    /\ EmbReturn(p, "provider_failed", ExceptEmbedding)
    /\ UNCHANGED <<e_store, e_text, e_before, e_ncalls>>

\* Lines 161-166: the insert is executed; the connection is released.
EmbWriteStore(p) ==
    /\ e_pc[p] = "write"
    /\ e_store' = InsertEmbedding(e_store, TextHash(e_text[p]), e_emb[p])
    /\ e_pc' = [e_pc EXCEPT ![p] = "memoize"]
    /\ UNCHANGED <<e_mem, e_text, e_emb, e_ret, e_before, e_ncalls>>

\* Lines 161-166, 171-174: acquire or execute raises: the zero vector is returned.
EmbWriteFails(p) ==
    /\ e_pc[p] = "write"
    /\ e_mem' = ExceptMemo(e_mem, TextHash(e_text[p]))
    /\ EmbReturn(p, "write_failed", ExceptEmbedding)
    /\ UNCHANGED <<e_store, e_text, e_before, e_ncalls>>

\* Lines 168-169: the embedding is put in the map and returned.
EmbMemoize(p) ==
    /\ e_pc[p] = "memoize"
    /\ e_mem' = MemoizeGenerated(e_mem, TextHash(e_text[p]), e_emb[p])
    /\ EmbReturn(p, "generated", e_emb[p])
    /\ UNCHANGED <<e_store, e_text, e_before, e_ncalls>>

\* What get_embedding leaves alone.
EmbFrame == UNCHANGED <<scoreVars, fetchVars, concVars, storeVars, queryVars, itemVars,
        runVars, catVars, feedVars, upsertVars>>

\* Concurrent callers.
EmbNext ==
    \/ \E p \in EmbCallers, text \in Texts : EmbCallHitsMemory(p, text) /\ EmbFrame
    \/ \E p \in EmbCallers, text \in Texts : EmbCallMissesMemory(p, text) /\ EmbFrame
    \/ \E p \in EmbCallers : EmbReadHits(p) /\ EmbFrame
    \/ \E p \in EmbCallers : EmbReadMisses(p) /\ EmbFrame
    \/ \E p \in EmbCallers : EmbReadFails(p) /\ EmbFrame
    \/ \E p \in EmbCallers, vector \in Vectors : EmbProviderAnswers(p, vector) /\ EmbFrame
    \/ \E p \in EmbCallers : EmbProviderFails(p) /\ EmbFrame
    \/ \E p \in EmbCallers : EmbWriteStore(p) /\ EmbFrame
    \/ \E p \in EmbCallers : EmbWriteFails(p) /\ EmbFrame
    \/ \E p \in EmbCallers : EmbMemoize(p) /\ EmbFrame

EmbSpecInit == EmbInit /\ ScoreIdle /\ FetchIdle /\ ConcIdle /\ RestIdle

SpecEmb == EmbSpecInit /\ [][EmbNext]_vars

\* One caller, one call after the other.
EmbNextSeq ==
    \/ \E text \in Texts : EmbCallHitsMemory(1, text) /\ EmbFrame
    \/ \E text \in Texts : EmbCallMissesMemory(1, text) /\ EmbFrame
    \/ EmbReadHits(1) /\ EmbFrame
    \/ EmbReadMisses(1) /\ EmbFrame
    \/ EmbReadFails(1) /\ EmbFrame
    \/ \E vector \in Vectors : EmbProviderAnswers(1, vector) /\ EmbFrame
    \/ EmbProviderFails(1) /\ EmbFrame
    \/ EmbWriteStore(1) /\ EmbFrame
    \/ EmbWriteFails(1) /\ EmbFrame
    \/ EmbMemoize(1) /\ EmbFrame

SpecEmbSeq == EmbSpecInit /\ [][EmbNextSeq]_vars

(***************************************************************************)
(* SpecScore: _calculate_initial_relevance applied to every item and table *)
(* of the bounded input sets.                                              *)
(***************************************************************************)
\* The words the sample contents are written with.
Vocabulary ==
    { <<"research", "lower">>, <<"breakthrough", "upper">>, <<"analysis", "lower">>,
      <<"report", "lower">>, <<"promo", "lower">>, <<"buy now", "upper">>,
      <<"click here", "lower">> }

SourceUrls == { {<<"techcrunch", "lower">>, <<"feed", "lower">>},
                {<<"twitter", "lower">>, <<"naval", "lower">>} }

Items == [content : SUBSET Vocabulary, source_url : SourceUrls]

IsNearestFirst(ks) == \A i \in 1..(Len(ks) - 1) : ks[i] <= ks[i + 1]

\* The tables: at most MaxRated rows, listed nearest first.
Tables ==
    UNION { { [i \in 1..n |-> RowKinds[ks[i]]] :
                ks \in {k \in [1..n -> 1..Len(RowKinds)] : IsNearestFirst(k)} }
            : n \in 0..MaxRated }

ScoreInit ==
    /\ s_item \in Items
    /\ s_db \in Tables
    /\ s_pc = "start"
    /\ s_rows = <<>>
    /\ s_path = "none"
    /\ s_score = <<0, 1>>

\* acquire and fetch succeed: the weighted average, or the heuristic.
CalcRelevanceFetched ==
    /\ s_pc = "start"
    /\ \E rows \in SimilarRatings(s_db) :
          LET r == RelevanceOf(s_item, rows)
          IN  /\ s_rows' = rows
              /\ s_path' = r.path
              /\ s_score' = r.score
    /\ s_pc' = "done"
    /\ UNCHANGED <<s_item, s_db>>

\* db_pool.acquire or conn.fetch raises: the except branch.
CalcRelevanceStoreFails ==
    /\ s_pc = "start"
    /\ s_rows' = <<>>
    /\ s_path' = "except"
    /\ s_score' = ExceptScore
    /\ s_pc' = "done"
    /\ UNCHANGED <<s_item, s_db>>

ScoreFrame == UNCHANGED <<embVars, fetchVars, concVars, storeVars, queryVars, itemVars,
        runVars, catVars, feedVars, upsertVars>>

ScoreNext ==
    \/ CalcRelevanceFetched /\ ScoreFrame
    \/ CalcRelevanceStoreFails /\ ScoreFrame

ScoreSpecInit == ScoreInit /\ EmbIdle /\ FetchIdle /\ ConcIdle /\ RestIdle

SpecScore == ScoreSpecInit /\ [][ScoreNext]_vars

(***************************************************************************)
(* Claims about scoring, stated without the operators of the model: the    *)
(* words of a string, the labelled neighbours of the table and the sums    *)
(* are recomputed here.                                                    *)
(***************************************************************************)
WordsOf(str) == {w[1] : w \in str}

\* q, d and n of the heuristic formula.
MatchedQuality(item) == Cardinality(WordsOf(item.content) \cap quality_words)

MatchedNoise(item) == Cardinality(WordsOf(item.content) \cap noise_words)

FromCredibleDomain(item) == IF WordsOf(item.source_url) \cap credible_domains # {} THEN 1 ELSE 0

\* clamp(0.5 + 0.1*q + 0.2*d - 0.2*n, 0.1, 1.0), in tenths.
HeuristicFormula(item) ==
    LET raw == 5 + MatchedQuality(item) + 2 * FromCredibleDomain(item) - 2 * MatchedNoise(item)
    IN  IF raw < 1 THEN 1 ELSE IF raw > 10 THEN 10 ELSE raw

\* The rows of the table that carry feedback and lie within radius 0.3.
LabeledNeighbors(db) == {i \in DOMAIN db : db[i].rated /\ db[i].distance < 30}

\* sum(weight) and sum(weight*label) over the rows I of the table, in hundredths.
RECURSIVE SumWeight(_, _)
SumWeight(db, I) ==
    IF I = {} THEN 0
    ELSE LET i == CHOOSE x \in I : TRUE
         IN  (100 - db[i].distance) + SumWeight(db, I \ {i})

RECURSIVE SumWeightedLabel(_, _)
SumWeightedLabel(db, I) ==
    IF I = {} THEN 0
    ELSE LET i == CHOOSE x \in I : TRUE
         IN  (IF db[i].user_feedback > 0 THEN 100 - db[i].distance ELSE 0)
             + SumWeightedLabel(db, I \ {i})

\* I is a choice of the (at most 5) nearest labelled neighbours of the table.
IsNearestFive(db, I) ==
    /\ I \subseteq LabeledNeighbors(db)
    /\ Cardinality(I) = (IF Cardinality(LabeledNeighbors(db)) < 5
                         THEN Cardinality(LabeledNeighbors(db)) ELSE 5)
    /\ \A i \in I : \A j \in LabeledNeighbors(db) \ I : db[i].distance <= db[j].distance

\* C7: the relevance score is always in [0,1], the computation always returns
\* a score (acquire failure, fetch failure, rows or no rows), and a score that
\* comes from _basic_content_scoring is in [0.1, 1.0].
C7_ScoreInUnitInterval ==
    s_pc = "done" =>
        /\ s_path \in {"knn", "heuristic", "except"}
        /\ s_score[2] > 0
        /\ 0 <= s_score[1]
        /\ s_score[1] <= s_score[2]
        /\ s_path = "heuristic" =>
              /\ 1 * s_score[2] <= s_score[1] * 10
              /\ s_score[1] <= s_score[2]

\* The heuristic path taken with a raw score below 0.1, which the clamp raises.
C7_Witness ==
    /\ s_pc = "done"
    /\ s_path = "heuristic"
    /\ 5 + MatchedQuality(s_item) + 2 * FromCredibleDomain(s_item) - 2 * MatchedNoise(s_item) < 1
    /\ s_db # <<>>

C9_NoNeighborsScoreHeuristic ==
    (s_pc = "done" /\ s_path # "except" /\ LabeledNeighbors(s_db) = {}) =>
        /\ s_path = "heuristic"
        /\ RatEq(s_score, Tenths(HeuristicFormula(s_item)))
        /\ ( /\ WordsOf(s_item.content) = {"research", "breakthrough"}
             /\ "techcrunch" \in WordsOf(s_item.source_url) )
           => RatEq(s_score, <<9, 10>>)

\* The scenario of C9, on a table that has rows but none labelled in radius.
C9_Witness ==
    /\ s_pc = "done"
    /\ s_path # "except"
    /\ LabeledNeighbors(s_db) = {}
    /\ s_db # <<>>
    /\ WordsOf(s_item.content) = {"research", "breakthrough"}
    /\ "techcrunch" \in WordsOf(s_item.source_url)
    /\ s_score = <<9, 10>>

\* C10: with at least one labelled neighbour within radius 0.3 (and a lookup
\* that succeeds) the score is sum(weight*label)/sum(weight) over a choice of
\* the at most 5 nearest of them, weight = 1 - distance, label = 1 iff
\* feedback > 0, and the heuristic is not used.
C10_NeighborsScoreWeightedAverage ==
    (s_pc = "done" /\ s_path # "except" /\ LabeledNeighbors(s_db) # {}) =>
        /\ s_path = "knn"
        /\ \E I \in SUBSET LabeledNeighbors(s_db) :
              /\ IsNearestFive(s_db, I)
              /\ RatEq(s_score, <<SumWeightedLabel(s_db, I), SumWeight(s_db, I)>>)

\* More than five labelled neighbours, at both distances and of both labels,
\* and a score strictly between 0 and 1.
C10_Witness ==
    /\ s_pc = "done"
    /\ s_path = "knn"
    /\ Cardinality(LabeledNeighbors(s_db)) > 5
    /\ \E i, j \in LabeledNeighbors(s_db) :
          s_db[i].distance # s_db[j].distance /\ s_db[i].user_feedback > 0 /\ s_db[j].user_feedback <= 0
    /\ 0 < s_score[1]
    /\ s_score[1] < s_score[2]

(***************************************************************************)
(* Claims about get_embedding.                                             *)
(***************************************************************************)
\* The provider requests made by a call with this outcome.
ProviderCallsOf(call) ==
    IF call.outcome \in {"generated", "provider_failed", "write_failed"} THEN 1 ELSE 0

\* Caller p has completed two successive calls on the same text.
TwoCallsSameText(p) ==
    /\ e_pc[p] = "idle"
    /\ e_before[p].outcome # "none"
    /\ e_ret[p].outcome # "none"
    /\ e_before[p].text = e_ret[p].text

\* C2 as stated: two successive calls of get_embedding on identical text make
\* exactly one provider call in total, and the second is served from the cache.
C2_TwoCallsOneProviderCall ==
    \A p \in EmbCallers :
        TwoCallsSameText(p) =>
            /\ ProviderCallsOf(e_before[p]) + ProviderCallsOf(e_ret[p]) = 1
            /\ e_ret[p].outcome \in {"hit_mem", "hit_db"}

\* C2 amended: when the first of two successive calls on identical text finds
\* the text in neither tier and its provider call and durable write succeed,
\* the two calls make exactly one provider call in total: the second call is
\* served from the in-process map, with the vector the first call returned.
C2_SecondCallAfterGeneratedHitsMemory ==
    \A p \in EmbCallers :
        (TwoCallsSameText(p) /\ e_before[p].outcome = "generated") =>
            /\ e_ret[p].outcome = "hit_mem"
            /\ e_ret[p].value = e_before[p].value
            /\ ProviderCallsOf(e_before[p]) + ProviderCallsOf(e_ret[p]) = 1

\* A provider call that succeeded, followed by a call on the same text.
C2_Witness ==
    /\ TwoCallsSameText(1)
    /\ e_before[1].outcome = "generated"
    /\ e_ret[1].outcome = "hit_mem"

\* C3: an entry of the in-process map or of embedding_cache, once present, is
\* never replaced and never removed.
C3_EntriesImmutable ==
    [][\A h \in Hashes :
          /\ e_mem[h] # "none" => e_mem'[h] = e_mem[h]
          /\ e_store[h] # "none" => e_store'[h] = e_store[h]]_vars

(***************************************************************************)
(* TwitterFetcher.fetch_user_tweets, one call.  A step of the model is the *)
(* code between two awaits; every awaited browser or store operation may   *)
(* fail.  The nodes of the list query_selector_all returns are chosen as   *)
(* the for loop reaches them.  The metrics of a node (lines 456-474) only  *)
(* fill source_metadata, and a failure there is swallowed at line 473: the *)
(* model does not carry the metadata.                                      *)
(***************************************************************************)
\* FetcherConfig.max_scroll_attempts
max_scroll_attempts == 8

urls_to_try == <<"https://x.com/", "https://twitter.com/">>

tweet_selectors == <<"[data-testid=tweet]", "article[data-testid=tweet]", "[role=article]">>

\* The texts inner_text() returns for the nodes that pass len(text.strip()) >= 5.
TweetTexts == {"tweet_a", "tweet_b"}

\* hashlib.md5(text.encode()).hexdigest()[:8]: distinct for the sample texts.
ContentHash(text) == CASE text = "tweet_a" -> "0cc175b9" [] text = "tweet_b" -> "92eb5ffe"

\* A slip: the hash is looked up but never recorded.
MarkSeen_forgotten(seen, hash) == seen

\* seen_content.add(content_hash)
MarkSeen(seen, hash) == seen \cup {hash}

\* A slip: the outer handler names a single exception type and misses the rest.
OuterExceptCatches_none(site) == FALSE

\* Line 514, except Exception: every failure inside the try is caught.
OuterExceptCatches(site) == TRUE

\* A slip: page.close() follows the try statement instead of standing in a
\* finally clause, so a return inside the try leaves without closing.
ReturnItems_no_finally == "done"

\* Lines 402, 425, 517: return items inside the try; the finally clause runs
\* page.close() before the call returns.
ReturnItems == "close"

\* A slip: the test of page_loaded after the loop is missing.
NextUrl_no_return(try) ==
    IF try < Len(urls_to_try)
    THEN [pc |-> "goto", try |-> try + 1]
    ELSE [pc |-> "wait_selector", try |-> 1]

\* Lines 391-402: after a page.goto that raised the for loop takes the next
\* url; after the last one page_loaded is False and items is returned.
NextUrl(try) ==
    IF try < Len(urls_to_try)
    THEN [pc |-> "goto", try |-> try + 1]
    ELSE [pc |-> ReturnItems, try |-> try]

\* A slip: the test of tweet_found after the loop is missing.
NextSelector_no_return(try) ==
    IF try < Len(tweet_selectors)
    THEN [pc |-> "wait_selector", try |-> try + 1]
    ELSE [pc |-> "query", try |-> try]

\* Lines 415-425: after a wait_for_selector that raised the for loop takes the
\* next selector; after the last one tweet_found is False and items is returned.
NextSelector(try) ==
    IF try < Len(tweet_selectors)
    THEN [pc |-> "wait_selector", try |-> try + 1]
    ELSE [pc |-> ReturnItems, try |-> try]

\* Line 432: the while condition.
LoopHead(tweet_count, scroll_attempts, max_tweets) ==
    IF tweet_count < max_tweets /\ scroll_attempts < max_scroll_attempts
    THEN "query" ELSE "close"

\* Lines 504-508: after the for loop.
AfterFor(tweet_count, max_tweets) ==
    IF tweet_count >= max_tweets THEN "close" ELSE "scroll"

\* A slip: the for loop lacks the break of lines 436-437.
NextNode_no_break(tweet_count, remaining, max_tweets) ==
    IF remaining = 0 THEN AfterFor(tweet_count, max_tweets) ELSE "node"

\* Lines 435-437: the for loop goes on to the next node, or ends.
NextNode(tweet_count, remaining, max_tweets) ==
    IF remaining = 0 \/ tweet_count >= max_tweets
    THEN AfterFor(tweet_count, max_tweets)
    ELSE "node"

\* self.browser and self.context as earlier calls on the instance may have left
\* them: never initialised, initialised, or launched with new_context failed.
InstanceSessions == {<<"none", "none">>, <<"set", "set">>, <<"set", "none">>}

FetchInit ==
    /\ \E session \in InstanceSessions : f_browser = session[1] /\ f_context = session[2]
    /\ f_has_db \in BOOLEAN
    /\ f_max_tweets \in -1..MaxTweets
    /\ f_pc = "call"
    /\ f_hist = NoHistory
    /\ f_page = "none"
    /\ f_try = 0
    /\ f_items = <<>>
    /\ f_seen = {}
    /\ f_tweet_count = 0
    /\ f_scroll_attempts = 0
    /\ f_remaining = 0
    /\ f_cur = "none"
    /\ f_pending = FALSE
    /\ f_fault = "none"
    /\ f_event = "none"
    /\ f_result = "none"

\* An exception leaves fetch_user_tweets (the semaphore is released on the way).
FetchRaises(site) ==
    /\ f_result' = "raised"
    /\ f_fault' = site
    /\ f_pc' = "done"

\* Lines 375, 380, 320: the semaphore is free; self.browser is None.
FetchCallInits ==
    /\ f_pc = "call"
    /\ UNCHANGED f_hist
    /\ f_browser = "none"
    /\ f_pc' = "launch"
    /\ UNCHANGED <<f_browser, f_context, f_has_db, f_max_tweets, f_page, f_try, f_items, f_seen,
                   f_tweet_count, f_scroll_attempts, f_remaining, f_cur, f_pending, f_fault,
                   f_event, f_result>>

\* Lines 320, 381: self.browser is set, _init_browser returns; new_page is awaited.
FetchCallReuses ==
    /\ f_pc = "call"
    /\ UNCHANGED f_hist
    /\ f_browser # "none"
    /\ f_context # "none"
    /\ f_pc' = "new_page"
    /\ UNCHANGED <<f_browser, f_context, f_has_db, f_max_tweets, f_page, f_try, f_items, f_seen,
                   f_tweet_count, f_scroll_attempts, f_remaining, f_cur, f_pending, f_fault,
                   f_event, f_result>>

\* Lines 320, 381: self.browser is set but self.context is None: AttributeError.
FetchCallNoContext ==
    /\ f_pc = "call"
    /\ UNCHANGED f_hist
    /\ f_browser # "none"
    /\ f_context = "none"
    /\ FetchRaises("no_context")
    /\ UNCHANGED <<f_browser, f_context, f_has_db, f_max_tweets, f_page, f_try, f_items, f_seen,
                   f_tweet_count, f_scroll_attempts, f_remaining, f_cur, f_pending, f_event>>

\* Lines 321-331: playwright starts and chromium launches; self.browser is set.
FetchLaunched ==
    /\ f_pc = "launch"
    /\ UNCHANGED f_hist
    /\ f_browser' = "set"
    /\ f_pc' = "new_context"
    /\ UNCHANGED <<f_context, f_has_db, f_max_tweets, f_page, f_try, f_items, f_seen,
                   f_tweet_count, f_scroll_attempts, f_remaining, f_cur, f_pending, f_fault,
                   f_event, f_result>>

FetchLaunchFails ==
    /\ f_pc = "launch"
    /\ UNCHANGED f_hist
    /\ FetchRaises("launch")
    /\ UNCHANGED <<f_browser, f_context, f_has_db, f_max_tweets, f_page, f_try, f_items, f_seen,
                   f_tweet_count, f_scroll_attempts, f_remaining, f_cur, f_pending, f_event>>

\* Lines 333-340: self.context is set.
FetchContextCreated ==
    /\ f_pc = "new_context"
    /\ UNCHANGED f_hist
    /\ f_context' = "set"
    /\ f_pc' = "init_script"
    /\ UNCHANGED <<f_browser, f_has_db, f_max_tweets, f_page, f_try, f_items, f_seen,
                   f_tweet_count, f_scroll_attempts, f_remaining, f_cur, f_pending, f_fault,
                   f_event, f_result>>

FetchContextFails ==
    /\ f_pc = "new_context"
    /\ UNCHANGED f_hist
    /\ FetchRaises("new_context")
    /\ UNCHANGED <<f_browser, f_context, f_has_db, f_max_tweets, f_page, f_try, f_items, f_seen,
                   f_tweet_count, f_scroll_attempts, f_remaining, f_cur, f_pending, f_event>>

\* Lines 342-346, 381: the init script is added; new_page is awaited.
FetchScriptAdded ==
    /\ f_pc = "init_script"
    /\ UNCHANGED f_hist
    /\ f_pc' = "new_page"
    /\ UNCHANGED <<f_browser, f_context, f_has_db, f_max_tweets, f_page, f_try, f_items, f_seen,
                   f_tweet_count, f_scroll_attempts, f_remaining, f_cur, f_pending, f_fault,
                   f_event, f_result>>

FetchScriptFails ==
    /\ f_pc = "init_script"
    /\ UNCHANGED f_hist
    /\ FetchRaises("init_script")
    /\ UNCHANGED <<f_browser, f_context, f_has_db, f_max_tweets, f_page, f_try, f_items, f_seen,
                   f_tweet_count, f_scroll_attempts, f_remaining, f_cur, f_pending, f_event>>

\* Lines 381-393: the page opens, items = [], the first url is requested.
FetchPageOpened ==
    /\ f_pc = "new_page"
    /\ UNCHANGED f_hist
    /\ f_page' = "open"
    /\ f_items' = <<>>
    /\ f_try' = 1
    /\ f_pc' = "goto"
    /\ UNCHANGED <<f_browser, f_context, f_has_db, f_max_tweets, f_seen, f_tweet_count,
                   f_scroll_attempts, f_remaining, f_cur, f_pending, f_fault, f_event, f_result>>

FetchPageFails ==
    /\ f_pc = "new_page"
    /\ UNCHANGED f_hist
    /\ FetchRaises("new_page")
    /\ UNCHANGED <<f_browser, f_context, f_has_db, f_max_tweets, f_page, f_try, f_items, f_seen,
                   f_tweet_count, f_scroll_attempts, f_remaining, f_cur, f_pending, f_event>>

\* Lines 393-417: the url loads; after the sleep the first selector is awaited.
FetchLoaded ==
    /\ f_pc = "goto"
    /\ f_hist' = [f_hist EXCEPT !.nav = Append(@, [url |-> urls_to_try[f_try], loaded |-> TRUE])]
    /\ f_try' = 1
    /\ f_pc' = "wait_selector"
    /\ UNCHANGED <<f_browser, f_context, f_has_db, f_max_tweets, f_page, f_items, f_seen,
                   f_tweet_count, f_scroll_attempts, f_remaining, f_cur, f_pending, f_fault,
                   f_event, f_result>>

\* Lines 396-402: goto raises: the next url, or return items through finally.
FetchLoadFails ==
    /\ f_pc = "goto"
    /\ f_hist' = [f_hist EXCEPT !.nav = Append(@, [url |-> urls_to_try[f_try], loaded |-> FALSE])]
    /\ f_fault' = "goto"
    /\ f_try' = NextUrl(f_try).try
    /\ f_pc' = NextUrl(f_try).pc
    /\ UNCHANGED <<f_browser, f_context, f_has_db, f_max_tweets, f_page, f_items, f_seen,
                   f_tweet_count, f_scroll_attempts, f_remaining, f_cur, f_pending, f_event,
                   f_result>>

\* Lines 417-432: a selector matches; the loop variables are set, the while
\* condition is evaluated.
FetchSelectorFound ==
    /\ f_pc = "wait_selector"
    /\ f_hist' = [f_hist
                 EXCEPT !.waits = Append(@, [selector |-> tweet_selectors[f_try], found |-> TRUE])]
    /\ f_tweet_count' = 0
    /\ f_seen' = {}
    /\ f_scroll_attempts' = 0
    /\ f_pc' = LoopHead(0, 0, f_max_tweets)
    /\ UNCHANGED <<f_browser, f_context, f_has_db, f_max_tweets, f_page, f_try, f_items,
                   f_remaining, f_cur, f_pending, f_fault, f_event, f_result>>

\* Lines 420-425: wait_for_selector raises: the next selector, or return items.
FetchSelectorFails ==
    /\ f_pc = "wait_selector"
    /\ f_hist' = [f_hist
                 EXCEPT !.waits = Append(@, [selector |-> tweet_selectors[f_try], found |-> FALSE])]
    /\ f_fault' = "wait_selector"
    /\ f_try' = NextSelector(f_try).try
    /\ f_pc' = NextSelector(f_try).pc
    /\ UNCHANGED <<f_browser, f_context, f_has_db, f_max_tweets, f_page, f_items, f_seen,
                   f_tweet_count, f_scroll_attempts, f_remaining, f_cur, f_pending, f_event,
                   f_result>>

\* An exception reaches the handler of line 514, then the finally block.
FetchOuterExcept(site) ==
    /\ f_fault' = site
    /\ f_pending' = ~OuterExceptCatches(site)
    /\ f_pc' = "close"

\* Line 433: query_selector_all returns n nodes; the for loop begins.
FetchQueried(n) ==
    /\ f_pc = "query"
    /\ f_hist' = [f_hist EXCEPT !.ops = @ \cup {"query"}]
    /\ f_remaining' = n
    /\ f_pc' = NextNode(f_tweet_count, n, f_max_tweets)
    /\ UNCHANGED <<f_browser, f_context, f_has_db, f_max_tweets, f_page, f_try, f_items, f_seen,
                   f_tweet_count, f_scroll_attempts, f_cur, f_pending, f_fault, f_event,
                   f_result>>

FetchQueryFails ==
    /\ f_pc = "query"
    /\ f_hist' = [f_hist EXCEPT !.ops = @ \cup {"query"}]
    /\ FetchOuterExcept("query")
    /\ UNCHANGED <<f_browser, f_context, f_has_db, f_max_tweets, f_page, f_try, f_items, f_seen,
                   f_tweet_count, f_scroll_attempts, f_remaining, f_cur, f_event, f_result>>

\* The for loop is done with a node without emitting it.
FetchNodeDropped(event) ==
    /\ f_event' = event
    /\ f_remaining' = f_remaining - 1
    /\ f_pc' = NextNode(f_tweet_count, f_remaining - 1, f_max_tweets)

\* Lines 439-445, 500-502: reading the node raises; continue.
FetchNodeFails ==
    /\ f_pc = "node"
    /\ f_hist' = [f_hist EXCEPT !.ops = @ \cup {"node"}]
    /\ f_fault' = "node"
    /\ FetchNodeDropped("error")
    /\ UNCHANGED <<f_browser, f_context, f_has_db, f_max_tweets, f_page, f_try, f_items, f_seen,
                   f_tweet_count, f_scroll_attempts, f_cur, f_pending, f_result>>

\* Lines 441-447: no text element, or a text shorter than 5; continue.
FetchNodeWithoutText ==
    /\ f_pc = "node"
    /\ f_hist' = [f_hist EXCEPT !.ops = @ \cup {"node"}]
    /\ FetchNodeDropped("no_text")
    /\ UNCHANGED <<f_browser, f_context, f_has_db, f_max_tweets, f_page, f_try, f_items, f_seen,
                   f_tweet_count, f_scroll_attempts, f_cur, f_pending, f_fault, f_result>>

\* Lines 450-452: the hash of the text was seen in this call; continue.
FetchNodeDuplicate(text) ==
    /\ f_pc = "node"
    /\ f_hist' = [f_hist EXCEPT !.ops = @ \cup {"node"}]
    /\ ContentHash(text) \in f_seen
    /\ FetchNodeDropped("duplicate")
    /\ UNCHANGED <<f_browser, f_context, f_has_db, f_max_tweets, f_page, f_try, f_items, f_seen,
                   f_tweet_count, f_scroll_attempts, f_cur, f_pending, f_fault, f_result>>

\* Lines 450-491: a new text, with a db_manager: the hash is recorded, the
\* item is built and store_content_item is awaited.
FetchNodeToStore(text) ==
    /\ f_pc = "node"
    /\ f_hist' = [f_hist EXCEPT !.ops = @ \cup {"node", "store"},
                                !.attempted = Append(@, text)]
    /\ ContentHash(text) \notin f_seen
    /\ f_has_db
    /\ f_seen' = MarkSeen(f_seen, ContentHash(text))
    /\ f_cur' = text
    /\ f_pc' = "store"
    /\ UNCHANGED <<f_browser, f_context, f_has_db, f_max_tweets, f_page, f_try, f_items,
                   f_tweet_count, f_scroll_attempts, f_remaining, f_pending, f_fault, f_event,
                   f_result>>

\* Lines 450-487, 496-498: a new text, without a db_manager: the item is emitted.
FetchNodeEmitted(text) ==
    /\ f_pc = "node"
    /\ f_hist' = [f_hist EXCEPT !.ops = @ \cup {"node"}, !.emitted = Append(@, text)]
    /\ ContentHash(text) \notin f_seen
    /\ ~f_has_db
    /\ f_seen' = MarkSeen(f_seen, ContentHash(text))
    /\ f_items' = Append(f_items, text)
    /\ f_tweet_count' = f_tweet_count + 1
    /\ f_event' = "emitted"
    /\ f_remaining' = f_remaining - 1
    /\ f_pc' = NextNode(f_tweet_count + 1, f_remaining - 1, f_max_tweets)
    /\ UNCHANGED <<f_browser, f_context, f_has_db, f_max_tweets, f_page, f_try,
                   f_scroll_attempts, f_cur, f_pending, f_fault, f_result>>

\* Lines 491-495: store_content_item returns True: the item is emitted.
FetchStored ==
    /\ f_pc = "store"
    /\ f_hist' = [f_hist EXCEPT !.stored = Append(@, f_cur), !.emitted = Append(@, f_cur)]
    /\ f_items' = Append(f_items, f_cur)
    /\ f_tweet_count' = f_tweet_count + 1
    /\ f_event' = "emitted"
    /\ f_cur' = "none"
    /\ f_remaining' = f_remaining - 1
    /\ f_pc' = NextNode(f_tweet_count + 1, f_remaining - 1, f_max_tweets)
    /\ UNCHANGED <<f_browser, f_context, f_has_db, f_max_tweets, f_page, f_try, f_seen,
                   f_scroll_attempts, f_pending, f_fault, f_result>>

\* Lines 491-492: store_content_item returns False: the item is dropped.
FetchStoreFails ==
    /\ f_pc = "store"
    /\ UNCHANGED f_hist
    /\ f_fault' = "store"
    /\ f_cur' = "none"
    /\ FetchNodeDropped("store_failed")
    /\ UNCHANGED <<f_browser, f_context, f_has_db, f_max_tweets, f_page, f_try, f_items, f_seen,
                   f_tweet_count, f_scroll_attempts, f_pending, f_result>>

\* Lines 508-510, 432: the page is scrolled; after the sleep the while
\* condition is evaluated.
FetchScrolled ==
    /\ f_pc = "scroll"
    /\ f_hist' = [f_hist EXCEPT !.ops = @ \cup {"scroll"}, !.scrolls = @ + 1]
    /\ f_scroll_attempts' = f_scroll_attempts + 1
    /\ f_pc' = LoopHead(f_tweet_count, f_scroll_attempts + 1, f_max_tweets)
    /\ UNCHANGED <<f_browser, f_context, f_has_db, f_max_tweets, f_page, f_try, f_items, f_seen,
                   f_tweet_count, f_remaining, f_cur, f_pending, f_fault, f_event, f_result>>

FetchScrollFails ==
    /\ f_pc = "scroll"
    /\ f_hist' = [f_hist EXCEPT !.ops = @ \cup {"scroll"}, !.scrolls = @ + 1]
    /\ FetchOuterExcept("scroll")
    /\ UNCHANGED <<f_browser, f_context, f_has_db, f_max_tweets, f_page, f_try, f_items, f_seen,
                   f_tweet_count, f_scroll_attempts, f_remaining, f_cur, f_event, f_result>>

\* Lines 516-519: the page closes; items is returned (or the exception that
\* was propagating goes on).
FetchClosed ==
    /\ f_pc = "close"
    /\ f_hist' = [f_hist EXCEPT !.closes = @ + 1]
    /\ f_page' = "closed"
    /\ f_result' = IF f_pending THEN "raised" ELSE "returned"
    /\ f_pc' = "done"
    /\ UNCHANGED <<f_browser, f_context, f_has_db, f_max_tweets, f_try, f_items, f_seen,
                   f_tweet_count, f_scroll_attempts, f_remaining, f_cur, f_pending, f_fault,
                   f_event>>

\* Line 517: page.close() raises inside the finally block; whether the page
\* is gone by then is not known to the caller.
FetchCloseFails ==
    /\ f_pc = "close"
    /\ f_hist' = [f_hist EXCEPT !.closes = @ + 1]
    /\ FetchRaises("close")
    /\ f_page' \in {"open", "closed"}
    /\ UNCHANGED <<f_browser, f_context, f_has_db, f_max_tweets, f_try, f_items, f_seen,
                   f_tweet_count, f_scroll_attempts, f_remaining, f_cur, f_pending, f_event>>

FetchFrame == UNCHANGED <<scoreVars, embVars, concVars, storeVars, queryVars, itemVars,
        runVars, catVars, feedVars, upsertVars>>

FetchNext ==
    \/ FetchCallInits /\ FetchFrame
    \/ FetchCallReuses /\ FetchFrame
    \/ FetchCallNoContext /\ FetchFrame
    \/ FetchLaunched /\ FetchFrame
    \/ FetchLaunchFails /\ FetchFrame
    \/ FetchContextCreated /\ FetchFrame
    \/ FetchContextFails /\ FetchFrame
    \/ FetchScriptAdded /\ FetchFrame
    \/ FetchScriptFails /\ FetchFrame
    \/ FetchPageOpened /\ FetchFrame
    \/ FetchPageFails /\ FetchFrame
    \/ FetchLoaded /\ FetchFrame
    \/ FetchLoadFails /\ FetchFrame
    \/ FetchSelectorFound /\ FetchFrame
    \/ FetchSelectorFails /\ FetchFrame
    \/ \E n \in 0..MaxNodes : FetchQueried(n) /\ FetchFrame
    \/ FetchQueryFails /\ FetchFrame
    \/ FetchNodeFails /\ FetchFrame
    \/ FetchNodeWithoutText /\ FetchFrame
    \/ \E text \in TweetTexts : FetchNodeDuplicate(text) /\ FetchFrame
    \/ \E text \in TweetTexts : FetchNodeToStore(text) /\ FetchFrame
    \/ \E text \in TweetTexts : FetchNodeEmitted(text) /\ FetchFrame
    \/ FetchStored /\ FetchFrame
    \/ FetchStoreFails /\ FetchFrame
    \/ FetchScrolled /\ FetchFrame
    \/ FetchScrollFails /\ FetchFrame
    \/ FetchClosed /\ FetchFrame
    \/ FetchCloseFails /\ FetchFrame

FetchSpecInit == FetchInit /\ ScoreIdle /\ EmbIdle /\ ConcIdle /\ RestIdle

SpecFetch == FetchSpecInit /\ [][FetchNext]_vars

(***************************************************************************)
(* Concurrent calls of fetch_user_tweets on one TwitterFetcher: the        *)
(* semaphore and the lazily created session.  The callers are coroutines   *)
(* of one event loop: a step is the code between two awaits.  What a call  *)
(* does with its own page between new_page and close (lines 384-515, see   *)
(* SpecFetch) touches no shared state and is one step here.                *)
(***************************************************************************)
Callers == 1..NumCallers

ConcInit ==
    /\ c_sem = MaxConcurrent
    /\ c_browser = 0
    /\ c_context = 0
    /\ c_launches = 0
    /\ c_contexts = 0
    /\ c_scripted = {}
    /\ c_pc = [p \in Callers |-> "idle"]
    /\ c_own = [p \in Callers |-> 0]
    /\ c_pagectx = [p \in Callers |-> 0]
    /\ c_pagefull = [p \in Callers |-> FALSE]
    /\ c_pages = 0

\* A slip: acquire and release written out, the release skipped by an exception.
ReleaseOnRaise_leaked(sem) == sem

\* Line 375, async with self._semaphore: __aexit__ releases when the body raises.
ReleaseOnRaise(sem) == sem + 1

\* Line 375, async with self._semaphore: __aexit__ releases when the body returns.
ReleaseOnReturn(sem) == sem + 1

\* An exception leaves fetch_user_tweets of caller p.
ConcRaises(p) ==
    /\ c_sem' = ReleaseOnRaise(c_sem)
    /\ c_pc' = [c_pc EXCEPT ![p] = "done"]

\* Lines 375-381 with the permit taken: _init_browser up to its first await,
\* or, with self.browser set, on to self.context.new_page().
ConcEnter(p) ==
    IF c_browser = 0
    THEN /\ c_sem' = c_sem - 1
         /\ c_pc' = [c_pc EXCEPT ![p] = "launch"]
         /\ UNCHANGED <<c_pagectx, c_pagefull>>
    ELSE IF c_context = 0
    THEN \* AttributeError: the permit is taken and released in this step
         /\ c_sem' = ReleaseOnRaise(c_sem - 1)
         /\ c_pc' = [c_pc EXCEPT ![p] = "done"]
         /\ UNCHANGED <<c_pagectx, c_pagefull>>
    ELSE /\ c_sem' = c_sem - 1
         /\ c_pc' = [c_pc EXCEPT ![p] = "new_page"]
         /\ c_pagectx' = [c_pagectx EXCEPT ![p] = c_context]
         /\ c_pagefull' = [c_pagefull EXCEPT ![p] = c_context \in c_scripted]

\* fetch_user_tweets is called while a permit is free.
ConcCall(p) ==
    /\ c_pc[p] = "idle"
    /\ c_sem > 0
    /\ ConcEnter(p)
    /\ UNCHANGED <<c_browser, c_context, c_launches, c_contexts, c_scripted, c_own, c_pages>>

\* fetch_user_tweets is called while no permit is free: the caller waits.
ConcCallWaits(p) ==
    /\ c_pc[p] = "idle"
    /\ c_sem = 0
    /\ c_pc' = [c_pc EXCEPT ![p] = "waiting"]
    /\ UNCHANGED <<c_sem, c_browser, c_context, c_launches, c_contexts, c_scripted, c_own,
                   c_pagectx, c_pagefull, c_pages>>

\* A waiting caller gets a permit.
ConcAcquire(p) ==
    /\ c_pc[p] = "waiting"
    /\ c_sem > 0
    /\ ConcEnter(p)
    /\ UNCHANGED <<c_browser, c_context, c_launches, c_contexts, c_scripted, c_own, c_pages>>

\* Lines 321-333: the launch completes; self.browser is assigned.
ConcLaunched(p) ==
    /\ c_pc[p] = "launch"
    /\ c_launches' = c_launches + 1
    /\ c_browser' = c_launches + 1
    /\ c_pc' = [c_pc EXCEPT ![p] = "new_context"]
    /\ UNCHANGED <<c_sem, c_context, c_contexts, c_scripted, c_own, c_pagectx, c_pagefull,
                   c_pages>>

ConcLaunchFails(p) ==
    /\ c_pc[p] = "launch"
    /\ ConcRaises(p)
    /\ UNCHANGED <<c_browser, c_context, c_launches, c_contexts, c_scripted, c_own, c_pagectx,
                   c_pagefull, c_pages>>

\* Lines 333-342: the context is created; self.context is assigned.
ConcContextCreated(p) ==
    /\ c_pc[p] = "new_context"
    /\ c_contexts' = c_contexts + 1
    /\ c_context' = c_contexts + 1
    /\ c_own' = [c_own EXCEPT ![p] = c_contexts + 1]
    /\ c_pc' = [c_pc EXCEPT ![p] = "init_script"]
    /\ UNCHANGED <<c_sem, c_browser, c_launches, c_scripted, c_pagectx, c_pagefull, c_pages>>

ConcContextFails(p) ==
    /\ c_pc[p] = "new_context"
    /\ ConcRaises(p)
    /\ UNCHANGED <<c_browser, c_context, c_launches, c_contexts, c_scripted, c_own, c_pagectx,
                   c_pagefull, c_pages>>

\* Lines 342-346, 381: the script is added to the context p created;
\* new_page is called on what self.context is now.
ConcScriptAdded(p) ==
    /\ c_pc[p] = "init_script"
    /\ c_scripted' = c_scripted \cup {c_own[p]}
    /\ c_pagectx' = [c_pagectx EXCEPT ![p] = c_context]
    /\ c_pagefull' = [c_pagefull EXCEPT ![p] = c_context \in (c_scripted \cup {c_own[p]})]
    /\ c_pc' = [c_pc EXCEPT ![p] = "new_page"]
    /\ UNCHANGED <<c_sem, c_browser, c_context, c_launches, c_contexts, c_own, c_pages>>

ConcScriptFails(p) ==
    /\ c_pc[p] = "init_script"
    /\ ConcRaises(p)
    /\ UNCHANGED <<c_browser, c_context, c_launches, c_contexts, c_scripted, c_own, c_pagectx,
                   c_pagefull, c_pages>>

\* Line 381: the page opens.
ConcPageOpened(p) ==
    /\ c_pc[p] = "new_page"
    /\ c_pages' = c_pages + 1
    /\ c_pc' = [c_pc EXCEPT ![p] = "scrape"]
    /\ UNCHANGED <<c_sem, c_browser, c_context, c_launches, c_contexts, c_scripted, c_own,
                   c_pagectx, c_pagefull>>

ConcPageFails(p) ==
    /\ c_pc[p] = "new_page"
    /\ ConcRaises(p)
    /\ UNCHANGED <<c_browser, c_context, c_launches, c_contexts, c_scripted, c_own, c_pagectx,
                   c_pagefull, c_pages>>

\* Lines 384-517: the try block ends, by return or by a caught exception;
\* page.close() is awaited.
ConcScraped(p) ==
    /\ c_pc[p] = "scrape"
    /\ c_pc' = [c_pc EXCEPT ![p] = "close"]
    /\ UNCHANGED <<c_sem, c_browser, c_context, c_launches, c_contexts, c_scripted, c_own,
                   c_pagectx, c_pagefull, c_pages>>

\* Lines 517-519, 375: the page closes, items is returned, the permit released.
ConcClosed(p) ==
    /\ c_pc[p] = "close"
    /\ c_pages' = c_pages - 1
    /\ c_sem' = ReleaseOnReturn(c_sem)
    /\ c_pc' = [c_pc EXCEPT ![p] = "done"]
    /\ UNCHANGED <<c_browser, c_context, c_launches, c_contexts, c_scripted, c_own, c_pagectx,
                   c_pagefull>>

\* Line 517: page.close() raises; the page stays open.
ConcCloseFails(p) ==
    /\ c_pc[p] = "close"
    /\ ConcRaises(p)
    /\ UNCHANGED <<c_browser, c_context, c_launches, c_contexts, c_scripted, c_own, c_pagectx,
                   c_pagefull, c_pages>>

ConcFrame == UNCHANGED <<scoreVars, embVars, fetchVars, storeVars, queryVars, itemVars,
        runVars, catVars, feedVars, upsertVars>>

ConcNext ==
    \/ \E p \in Callers : ConcCall(p) /\ ConcFrame
    \/ \E p \in Callers : ConcCallWaits(p) /\ ConcFrame
    \/ \E p \in Callers : ConcAcquire(p) /\ ConcFrame
    \/ \E p \in Callers : ConcLaunched(p) /\ ConcFrame
    \/ \E p \in Callers : ConcLaunchFails(p) /\ ConcFrame
    \/ \E p \in Callers : ConcContextCreated(p) /\ ConcFrame
    \/ \E p \in Callers : ConcContextFails(p) /\ ConcFrame
    \/ \E p \in Callers : ConcScriptAdded(p) /\ ConcFrame
    \/ \E p \in Callers : ConcScriptFails(p) /\ ConcFrame
    \/ \E p \in Callers : ConcPageOpened(p) /\ ConcFrame
    \/ \E p \in Callers : ConcPageFails(p) /\ ConcFrame
    \/ \E p \in Callers : ConcScraped(p) /\ ConcFrame
    \/ \E p \in Callers : ConcClosed(p) /\ ConcFrame
    \/ \E p \in Callers : ConcCloseFails(p) /\ ConcFrame

ConcSpecInit == ConcInit /\ ScoreIdle /\ EmbIdle /\ FetchIdle /\ RestIdle

SpecConc == ConcSpecInit /\ [][ConcNext]_vars

(***************************************************************************)
(* Claims about one call of fetch_user_tweets (SpecFetch).                 *)
(***************************************************************************)
\* The awaits outside the try block of _fetch_user_tweets_impl (lines 380-381),
\* and the one of its finally block (line 517).
UnguardedSites == {"no_context", "launch", "new_context", "init_script", "new_page", "close"}

\* The awaits inside the try block (lines 384-510).
GuardedSites == {"goto", "wait_selector", "query", "node", "store", "scroll"}

\* C1, as stated: fetch_user_tweets never raises, whatever fails.
C1_NeverRaises == f_result # "raised"

\* C1, amended: a finished call has raised exactly when its last failure was a
\* session step outside the try block or the page close of the finally block;
\* after a failure of navigation, selector wait, node listing, node
\* extraction, store or scroll it returns the list collected so far.
C1_RaisesOnlyOutsideTry ==
    f_pc = "done" =>
        /\ f_result \in {"returned", "raised"}
        /\ f_result = "raised" <=> f_fault \in UnguardedSites
        /\ f_fault \in GuardedSites \cup {"none"} => f_result = "returned"

\* A scroll failed after an item was collected, and the call returned the list.
C1_Witness ==
    /\ f_result = "returned"
    /\ f_fault = "scroll"
    /\ Len(f_items) >= 1

InFlight == {p \in Callers : c_pc[p] \notin {"idle", "waiting", "done"}}

\* The callers that called new_page on self.context.
WithPage == {p \in Callers : c_pagectx[p] # 0}

\* C4, as stated: browser and context are created at most once, and every
\* page is requested on that one context with its init script added.
C4_SessionCreatedOnce ==
    /\ c_launches <= 1
    /\ c_contexts <= 1
    /\ \A p \in WithPage : c_pagectx[p] = 1 /\ c_pagefull[p]

\* C5: at most MaxConcurrent callers are inside _fetch_user_tweets_impl, and
\* the free permits are exactly those not held by a caller inside: none is
\* lost on return or on an exception.
C5_InFlightBounded ==
    /\ Cardinality(InFlight) <= MaxConcurrent
    /\ c_sem = MaxConcurrent - Cardinality(InFlight)

\* Every permit is taken and a further caller waits.
C5_Witness ==
    /\ Cardinality(InFlight) = MaxConcurrent
    /\ c_sem = 0
    /\ \E p \in Callers : c_pc[p] = "waiting"

(***************************************************************************)
(* Claims about the failures of get_embedding (SpecEmb).                   *)
(***************************************************************************)
\* C11: a call whose provider request failed has returned the zero vector,
\* the list [0.0] * 1536 of line 174, and has not raised.
C11_ProviderFailureReturnsZeroVector ==
    \A p \in EmbCallers :
        e_ret[p].outcome = "provider_failed" => e_ret[p].value = ZeroVector

\* A call has ended by a provider failure, with nothing cached for its text.
C11_Witness ==
    \E p \in EmbCallers :
        /\ e_ret[p].outcome = "provider_failed"
        /\ e_ret[p].value = ZeroVector
        /\ e_pc[p] = "idle"
        /\ e_mem[TextHash(e_ret[p].text)] = "none"

\* C13, as stated: every call that has ended has returned a vector (a cached
\* one, a generated one, or the zero vector), also when the read of
\* embedding_cache failed.
C13_ReadFailureReturnsVector ==
    \A p \in EmbCallers :
        e_ret[p].outcome # "none" => e_ret[p].value \in Vectors \cup {ZeroVector}

(***************************************************************************)
(* SpecStore: a harvester hands items to store_content_item, one call      *)
(* after the other, while the user's feedback is recorded on stored rows   *)
(* from outside.  get_embedding is taken by its outcomes (see SpecEmb): a  *)
(* provider or cached vector, the zero vector, or an exception.            *)
(***************************************************************************)
\* The calls of store_content_item.
MaxStores == 3

\* The ids of the sample items.
Ids == {"id_a", "id_b"}

\* json.dumps(item.source_metadata): the engagement counters of two scrapes.
Metadata == {"likes_1", "likes_2"}

\* The sample items: the id follows from (source, author, content); the same
\* content may be scraped again with other metadata.
StoreItems ==
    { [id |-> "id_a", content |-> {<<"research", "lower">>},
       source_url |-> {<<"twitter", "lower">>}, source_metadata |-> m] : m \in Metadata }
    \cup
    { [id |-> "id_b", content |-> {<<"promo", "lower">>},
       source_url |-> {<<"twitter", "lower">>}, source_metadata |-> m] : m \in Metadata }

NoItem ==
    [id |-> "none", content |-> {}, source_url |-> {}, source_metadata |-> "none"]

\* No row with the id.  user_feedback NULL is rated = FALSE.
NoRow ==
    [present |-> FALSE, embedding |-> "none", relevance_score |-> <<0, 1>>,
     source_metadata |-> "none", user_feedback |-> 0, rated |-> FALSE]

\* embedding <-> $1 in hundredths, for the sample vectors: the provider's
\* vectors have length 1, so each lies at distance 1 from the zero vector;
\* the two of them are near each other.
Distance(a, b) ==
    IF a = b THEN 0
    ELSE IF a = ZeroVector \/ b = ZeroVector THEN 100
    ELSE 20

\* The vectors get_embedding returns in the sample runs.
StoreVectors == {"v1", ZeroVector}

RECURSIVE GCD(_, _)
GCD(a, b) == IF b = 0 THEN a ELSE GCD(b, a % b)

\* total_score / total_weight is one number: the fraction in lowest terms.
Quotient(r) == IF r[1] = 0 THEN <<0, 1>> ELSE <<r[1] \div GCD(r[1], r[2]), r[2] \div GCD(r[1], r[2])>>

\* The rows of the table in an order, as the query of lines 220-227 sees them.
ViewOf(rows, order, v) ==
    [i \in 1..Len(order) |->
        Row(rows[order[i]].user_feedback, rows[order[i]].rated,
            Distance(rows[order[i]].embedding, v))]

\* ORDER BY distance: the orders of the present rows, nearest first.
NearestFirstOrders(rows, v) ==
    LET present == {id \in Ids : rows[id].present}
        n == Cardinality(present)
    IN  { order \in [1..n -> present] :
            /\ \A i, j \in 1..n : i # j => order[i] # order[j]
            /\ \A i \in 1..(n - 1) :
                  Distance(rows[order[i]].embedding, v)
                    <= Distance(rows[order[i + 1]].embedding, v) }

\* What conn.fetch may return for item.embedding = v.
StoreSimilarRatings(rows, v) ==
    UNION { SimilarRatings(ViewOf(rows, order, v)) : order \in NearestFirstOrders(rows, v) }

\* Line 219, if item.embedding: a list of 1536 floats is true, zeros or not.
EmbeddingIsTrue(v) == v # "none"

\* A slip: ON CONFLICT (id) DO NOTHING.
Upsert_do_nothing(rows, item, embedding, score) ==
    IF rows[item.id].present THEN rows
    ELSE [rows EXCEPT ![item.id] =
            [present |-> TRUE, embedding |-> embedding, relevance_score |-> score,
             source_metadata |-> item.source_metadata, user_feedback |-> 0, rated |-> FALSE]]

\* A slip: the SET list resets user_feedback with the other columns.
Upsert_feedback_reset(rows, item, embedding, score) ==
    [rows EXCEPT ![item.id] =
        [present |-> TRUE, embedding |-> embedding, relevance_score |-> score,
         source_metadata |-> item.source_metadata, user_feedback |-> 0, rated |-> FALSE]]

\* Lines 188-206: INSERT ... ON CONFLICT (id) DO UPDATE SET embedding,
\* relevance_score, source_metadata (and updated_at).
Upsert(rows, item, embedding, score) ==
    IF rows[item.id].present
    THEN [rows EXCEPT ![item.id].embedding = embedding,
                      ![item.id].relevance_score = score,
                      ![item.id].source_metadata = item.source_metadata]
    ELSE [rows EXCEPT ![item.id] =
            [present |-> TRUE, embedding |-> embedding, relevance_score |-> score,
             source_metadata |-> item.source_metadata, user_feedback |-> 0, rated |-> FALSE]]

\* A slip: the handler logs the error and raises it again.
StoreExceptResult_reraised == "raised"

\* Lines 210-212: except Exception: return False
StoreExceptResult == "false"

StoreInit ==
    /\ t_rows = [id \in Ids |-> NoRow]
    /\ t_pc = "idle"
    /\ t_item = NoItem
    /\ t_emb = "none"
    /\ t_query = "none"
    /\ t_path = "none"
    /\ t_score = Quotient(Tenths(5))
    /\ t_prev = NoRow
    /\ t_result = "none"
    /\ t_fault = "none"
    /\ t_items = <<>>
    /\ t_nstores = 0

\* Lines 491, 618, 178-181: the harvester calls store_content_item(item);
\* get_embedding is awaited.  relevance_score is the constructor's default 0.5.
StoreCall(item) ==
    /\ t_pc = "idle"
    /\ t_nstores < MaxStores
    /\ t_nstores' = t_nstores + 1
    /\ t_item' = item
    /\ t_pc' = "embedding"
    /\ UNCHANGED <<t_rows, t_emb, t_query, t_path, t_score, t_prev, t_result, t_fault,
                   t_items>>

\* Lines 181-184: get_embedding returns v; _calculate_initial_relevance is
\* entered and awaits a connection.
StoreEmbedded(v) ==
    /\ t_pc = "embedding"
    /\ t_emb' = v
    /\ t_pc' = "relevance"
    /\ UNCHANGED <<t_rows, t_item, t_query, t_path, t_score, t_prev, t_result, t_fault,
                   t_items, t_nstores>>

\* The handler of lines 210-212 ends the call.
StoreExcept(site) ==
    /\ t_result' = StoreExceptResult
    /\ t_fault' = site
    /\ t_pc' = "done"

\* Lines 181, 210-212: get_embedding raises (its read of embedding_cache failed).
StoreEmbeddingRaises ==
    /\ t_pc = "embedding"
    /\ StoreExcept("embedding")
    /\ UNCHANGED <<t_rows, t_item, t_emb, t_query, t_path, t_score, t_prev, t_items,
                   t_nstores>>

\* Lines 217-244, 184-187: the query is issued with item.embedding and
\* answered; the score is set; the insert awaits a connection.
StoreScored(rows) ==
    /\ t_pc = "relevance"
    /\ EmbeddingIsTrue(t_emb)
    /\ rows \in StoreSimilarRatings(t_rows, t_emb)
    /\ t_query' = t_emb
    /\ t_path' = RelevanceOf(t_item, rows).path
    /\ t_score' = Quotient(RelevanceOf(t_item, rows).score)
    /\ t_pc' = "insert"
    /\ UNCHANGED <<t_rows, t_item, t_emb, t_prev, t_result, t_fault, t_items, t_nstores>>

\* Lines 217, 246-248: acquire raises; the score is 0.5 and the store goes on.
StoreAcquireFails ==
    /\ t_pc = "relevance"
    /\ t_path' = "except"
    /\ t_score' = Quotient(ExceptScore)
    /\ t_fault' = "relevance"
    /\ t_pc' = "insert"
    /\ UNCHANGED <<t_rows, t_item, t_emb, t_query, t_prev, t_result, t_items, t_nstores>>

\* Lines 220-227, 246-248: the query is issued and raises; the score is 0.5.
StoreFetchFails ==
    /\ t_pc = "relevance"
    /\ EmbeddingIsTrue(t_emb)
    /\ t_query' = t_emb
    /\ t_path' = "except"
    /\ t_score' = Quotient(ExceptScore)
    /\ t_fault' = "relevance"
    /\ t_pc' = "insert"
    /\ UNCHANGED <<t_rows, t_item, t_emb, t_prev, t_result, t_items, t_nstores>>

\* Lines 187-208: the upsert is executed; True is returned.
StoreInserted ==
    /\ t_pc = "insert"
    /\ t_prev' = t_rows[t_item.id]
    /\ t_rows' = Upsert(t_rows, t_item, t_emb, t_score)
    /\ t_result' = "true"
    /\ t_pc' = "done"
    /\ UNCHANGED <<t_item, t_emb, t_query, t_path, t_score, t_fault, t_items, t_nstores>>

\* Lines 187-206, 210-212: acquire or execute raises; False is returned.
StoreInsertFails ==
    /\ t_pc = "insert"
    /\ StoreExcept("insert")
    /\ UNCHANGED <<t_rows, t_item, t_emb, t_query, t_path, t_score, t_prev, t_items,
                   t_nstores>>

\* Lines 491-495, 618-620: the harvester appends the item if success; the
\* locals of the call are gone.
HarvesterTakes ==
    /\ t_pc = "done"
    /\ t_result \in {"true", "false"}
    /\ t_items' = IF t_result = "true" THEN Append(t_items, t_item.id) ELSE t_items
    /\ t_pc' = "idle"
    /\ t_item' = NoItem
    /\ t_emb' = "none"
    /\ t_query' = "none"
    /\ t_path' = "none"
    /\ t_score' = Quotient(Tenths(5))
    /\ t_prev' = NoRow
    /\ t_result' = "none"
    /\ t_fault' = "none"
    /\ UNCHANGED <<t_rows, t_nstores>>

\* Outside the pipeline: the user's feedback is recorded on a stored row,
\* between two calls or between the query and the insert of one call.  (The
\* other steps of a call do not touch the table: feedback arriving there is
\* as feedback arriving before the call or after it.)
FeedbackRecorded(id, fb) ==
    /\ t_rows[id].present
    /\ t_pc \in {"idle", "insert"}
    /\ t_rows' = [t_rows EXCEPT ![id].user_feedback = fb, ![id].rated = TRUE]
    /\ UNCHANGED <<t_pc, t_item, t_emb, t_query, t_path, t_score, t_prev, t_result, t_fault,
                   t_items, t_nstores>>

StoreFrame == UNCHANGED <<scoreVars, embVars, fetchVars, concVars, queryVars, itemVars,
        runVars, catVars, feedVars, upsertVars>>

StoreNext ==
    \/ \E item \in StoreItems : StoreCall(item) /\ StoreFrame
    \/ \E v \in StoreVectors : StoreEmbedded(v) /\ StoreFrame
    \/ StoreEmbeddingRaises /\ StoreFrame
    \/ \E rows \in StoreSimilarRatings(t_rows, t_emb) : StoreScored(rows) /\ StoreFrame
    \/ StoreAcquireFails /\ StoreFrame
    \/ StoreFetchFails /\ StoreFrame
    \/ StoreInserted /\ StoreFrame
    \/ StoreInsertFails /\ StoreFrame
    \/ HarvesterTakes /\ StoreFrame
    \/ \E id \in Ids, fb \in {-1, 1} : FeedbackRecorded(id, fb) /\ StoreFrame

StoreSpecInit ==
    StoreInit /\ ScoreIdle /\ EmbIdle /\ FetchIdle /\ ConcIdle /\ QueryIdle /\ ItemIdle
    /\ RunIdle /\ CatIdle /\ FeedIdle /\ UpsertIdle

SpecStore == StoreSpecInit /\ [][StoreNext]_vars

(***************************************************************************)
(* Claims about store_content_item (SpecStore).                            *)
(***************************************************************************)
\* The call has executed its upsert and returns True.
StoredNow == t_pc = "done" /\ t_result = "true"

\* C12, as stated: when get_embedding returned the zero vector, no
\* nearest-neighbour query is issued with it and the score comes from the
\* heuristic.
C12_ZeroVectorIsNoSignal ==
    t_emb = ZeroVector =>
        /\ t_query # ZeroVector
        /\ t_path \in {"none", "heuristic"}

\* C14, as stated: storing the same item a second time leaves the row as the
\* first store left it.
C14_SecondStoreLeavesRow ==
    (StoredNow /\ t_prev.present /\ t_prev.source_metadata = t_item.source_metadata)
        => t_rows[t_item.id] = t_prev

\* C14, amended: after a store the row of the id holds the embedding, score
\* and metadata this store computed; on a row that existed nothing else has
\* changed, so the row is as before exactly when the three values are.
C14_LastWriteWins ==
    StoredNow =>
        LET row == t_rows[t_item.id] IN
        /\ row.present
        /\ row.embedding = t_emb
        /\ row.relevance_score = t_score
        /\ row.source_metadata = t_item.source_metadata
        /\ t_prev.present =>
              row = [t_prev EXCEPT !.embedding = t_emb,
                                   !.relevance_score = t_score,
                                   !.source_metadata = t_item.source_metadata]

\* A second store of an id has replaced embedding, score and metadata.
C14_Witness ==
    /\ StoredNow
    /\ t_prev.present
    /\ t_prev.embedding # t_emb
    /\ t_prev.relevance_score # t_score
    /\ t_prev.source_metadata # t_item.source_metadata

\* C15: a step of store_content_item leaves the user_feedback of every row
\* that carries one as it is; only the recording from outside changes it.
C15_FeedbackUntouched ==
    [][ \/ \E id \in Ids, fb \in {-1, 1} : FeedbackRecorded(id, fb)
        \/ \A id \in Ids :
              t_rows[id].rated =>
                  /\ t_rows'[id].rated
                  /\ t_rows'[id].user_feedback = t_rows[id].user_feedback ]_vars

\* A row that carried feedback has been stored again, with another embedding.
C15_Witness ==
    /\ StoredNow
    /\ t_prev.rated
    /\ t_prev.embedding # t_emb
    /\ t_rows[t_item.id].rated
    /\ t_rows[t_item.id].user_feedback = t_prev.user_feedback

\* C20, as stated: the call returns False whenever embedding, scoring or the
\* insert failed.
C20_FalseWhenAnyStepFails ==
    (t_pc = "done" /\ (t_emb = ZeroVector \/ t_path = "except"
                        \/ t_fault \in {"embedding", "insert"}))
        => t_result = "false"

\* C20, amended: the call never raises; it returns False exactly when
\* get_embedding raised or the insert failed, and True exactly when the row
\* was written, also after a provider failure (zero vector) or a failed
\* neighbour lookup (score 0.5); every id in the harvester's list has a row.
C20_FalseOnlyWhenNotWritten ==
    /\ t_result # "raised"
    /\ t_pc = "done" =>
          /\ t_result \in {"true", "false"}
          /\ t_result = "false" <=> t_fault \in {"embedding", "insert"}
          /\ t_result = "true" <=>
                (t_rows[t_item.id].present /\ t_rows[t_item.id].embedding = t_emb
                    /\ t_emb # "none" /\ t_fault # "insert")
    /\ \A i \in 1..Len(t_items) : t_rows[t_items[i]].present
    /\ Len(t_items) <= t_nstores

\* An item was stored with the zero vector and the score of a failed lookup,
\* and True was returned, after an earlier item went into the list.
C20_Witness ==
    /\ StoredNow
    /\ t_emb = ZeroVector
    /\ t_path = "except"
    /\ Len(t_items) >= 1

(***************************************************************************)
(* SpecQuery: get_high_quality_content(hours, min_score, limit) on a table *)
(* of sample rows.  scraped_at is held as the age of the row in half hours *)
(* at the moment of the query, relevance_score in tenths, published as a   *)
(* day number.                                                             *)
(***************************************************************************)
\* The largest arguments hours and limit.
MaxHours == 2

MaxLimit == 2

QueryRow(id, age, score, published) ==
    [id |-> id, age |-> age, relevance_score |-> score, published |-> published]

\* The rows the tables are drawn from.
QueryRows ==
    { QueryRow("r1", 1, 9, 3), QueryRow("r2", 1, 9, 5), QueryRow("r3", 1, 7, 5),
      QueryRow("r4", 2, 8, 1), QueryRow("r5", 3, 10, 4), QueryRow("r6", 0, 6, 2),
      QueryRow("r7", 1, 9, 3) }

\* The values of min_score, in tenths.
MinScores == {5, 7, 9}

\* WHERE scraped_at > NOW() - INTERVAL '%d hours': hours is an int and is
\* written in decimal; the row is younger than that many hours.
InWindow(row, hours) == row.age < 2 * hours

\* A slip: relevance_score > $1.
MeetsScore_strict(row, min_score) == row.relevance_score > min_score

\* AND relevance_score >= $1
MeetsScore(row, min_score) == row.relevance_score >= min_score

\* The rows the WHERE clause keeps.
Selected(table, hours, min_score) ==
    {row \in table : InWindow(row, hours) /\ MeetsScore(row, min_score)}

\* ORDER BY relevance_score DESC, published DESC: a must come before b.
SortsBefore(a, b) ==
    \/ a.relevance_score > b.relevance_score
    \/ a.relevance_score = b.relevance_score /\ a.published > b.published

\* dict(row): the columns of the SELECT list held by the model.
AsDict(row) ==
    [id |-> row.id, relevance_score |-> row.relevance_score, published |-> row.published]

\* ORDER BY ... LIMIT $2: the lists conn.fetch may return.  Rows that agree in
\* both sort columns come in the order, and are cut off, as the store pleases.
FetchResults(table, hours, min_score, limit) ==
    LET sel == Selected(table, hours, min_score)
        n == Min(limit, Cardinality(sel))
    IN  { seq \in [1..n -> sel] :
            /\ \A i, j \in 1..n : i < j => seq[i] # seq[j] /\ ~SortsBefore(seq[j], seq[i])
            /\ \A i \in 1..n : \A row \in sel :
                  (\A j \in 1..n : seq[j] # row) => ~SortsBefore(row, seq[i]) }

QueryInit ==
    /\ q_table \in SUBSET QueryRows
    /\ q_hours \in 0..MaxHours
    /\ q_min_score \in MinScores
    /\ q_limit \in 0..MaxLimit
    /\ q_pc = "call"
    /\ q_result = <<>>
    /\ q_failed = FALSE

\* Lines 285-297: the query is answered; the rows are returned as dicts.
QueryAnswered(rows) ==
    /\ q_pc = "call"
    /\ rows \in FetchResults(q_table, q_hours, q_min_score, q_limit)
    /\ q_result' = [i \in 1..Len(rows) |-> AsDict(rows[i])]
    /\ q_pc' = "done"
    /\ UNCHANGED <<q_table, q_hours, q_min_score, q_limit, q_failed>>

\* Lines 299-301: acquire or fetch raises; the empty list is returned.
QueryFails ==
    /\ q_pc = "call"
    /\ q_result' = <<>>
    /\ q_failed' = TRUE
    /\ q_pc' = "done"
    /\ UNCHANGED <<q_table, q_hours, q_min_score, q_limit>>

QueryFrame == UNCHANGED <<scoreVars, embVars, fetchVars, concVars, storeVars, itemVars,
        runVars, catVars, feedVars, upsertVars>>

QueryNext ==
    \/ \E rows \in FetchResults(q_table, q_hours, q_min_score, q_limit) :
          QueryAnswered(rows) /\ QueryFrame
    \/ QueryFails /\ QueryFrame

QuerySpecInit ==
    QueryInit /\ ScoreIdle /\ EmbIdle /\ FetchIdle /\ ConcIdle /\ StoreIdle /\ ItemIdle
    /\ RunIdle /\ CatIdle /\ FeedIdle /\ UpsertIdle

SpecQuery == QuerySpecInit /\ [][QueryNext]_vars

(***************************************************************************)
(* Claim about get_high_quality_content (SpecQuery).                       *)
(***************************************************************************)
\* The row of the table a returned dict was made from.
TableRowOf(d) == CHOOSE row \in q_table : row.id = d.id

\* The rows of the table within the window and at or above min_score.
Eligible ==
    {row \in q_table : row.age < 2 * q_hours /\ row.relevance_score >= q_min_score}

ReturnedIds == {q_result[i].id : i \in 1..Len(q_result)}

\* C16: an answered query returns only rows scraped within the last hours
\* hours with relevance_score >= min_score, each once, by descending score
\* and then descending published, and they are the first limit of all such
\* rows in that order.
C16_HighQualityContent ==
    (q_pc = "done" /\ ~q_failed) =>
        /\ \A i \in 1..Len(q_result) :
              /\ \E row \in q_table : row.id = q_result[i].id
              /\ TableRowOf(q_result[i]) \in Eligible
              /\ q_result[i].relevance_score = TableRowOf(q_result[i]).relevance_score
              /\ q_result[i].published = TableRowOf(q_result[i]).published
        /\ \A i, j \in 1..Len(q_result) :
              i < j =>
                  /\ q_result[i].id # q_result[j].id
                  /\ q_result[i].relevance_score >= q_result[j].relevance_score
                  /\ q_result[i].relevance_score = q_result[j].relevance_score
                        => q_result[i].published >= q_result[j].published
        /\ Len(q_result) = Min(q_limit, Cardinality(Eligible))
        /\ \A row \in Eligible :
              row.id \notin ReturnedIds =>
                  \A i \in 1..Len(q_result) :
                      \/ row.relevance_score < q_result[i].relevance_score
                      \/ /\ row.relevance_score = q_result[i].relevance_score
                         /\ row.published <= q_result[i].published

\* A query was cut off at its limit: rows that tie in score came back by
\* published, a row exactly at min_score is in, and the table held rows
\* outside the window, below min_score, and eligible but beyond the limit.
C16_Witness ==
    /\ q_pc = "done"
    /\ ~q_failed
    /\ Len(q_result) = q_limit
    /\ q_limit >= 2
    /\ q_result[1].relevance_score = q_result[2].relevance_score
    /\ q_result[1].published > q_result[2].published
    /\ q_result[2].relevance_score = q_min_score
    /\ Cardinality(Eligible) > q_limit
    /\ \E row \in q_table : row.age >= 2 * q_hours
    /\ \E row \in q_table : row.relevance_score < q_min_score

(***************************************************************************)
(* SpecItem, SpecItemPair: the dataclass constructor of                    *)
(* EnhancedContentItem followed by __post_init__.  A string is a sequence  *)
(* of pieces (letters or longer chunks); a content is a text together with *)
(* the number of words text.split() finds in it.                           *)
(***************************************************************************)
\* id="" as the harvesters pass it, and an id given by the caller.
EmptyString == <<>>

GivenId == [prefix |-> <<"given">>, digest |-> <<>>]

NoId == [prefix |-> EmptyString, digest |-> EmptyString]

Content(text, words) == [text |-> text, words |-> words]

\* len(self.content.split())
SplitLen(content) == content.words

\* hashlib.md5(s.encode()).hexdigest()[:8]: a function of the string with a
\* value of fixed size, so different strings may collide.  The sample digest
\* keeps the parity of the length and the last piece.
Md5Head(str) ==
    <<Len(str) % 2, IF str = EmptyString THEN "" ELSE str[Len(str)]>>

\* f"{self.source}{self.author}{self.content}"
HashedString(source, author, content) == source \o author \o content.text

\* A slip: the content is left out of the hashed string.
DerivedId_without_content(source, author, content) ==
    [prefix |-> source \o <<"_">> \o author \o <<"_">>,
     digest |-> Md5Head(source \o author)]

\* Lines 85-88: f"{source}_{author}_{md5(source + author + content)[:8]}".  The
\* digest is the last 8 characters of the id, so two ids are equal when both
\* parts are.
DerivedId(source, author, content) ==
    [prefix |-> source \o <<"_">> \o author \o <<"_">>,
     digest |-> Md5Head(HashedString(source, author, content))]

\* Lines 91-92: if not self.word_count.
WordCountOf(args) ==
    IF args.word_count = 0 THEN SplitLen(args.content) ELSE args.word_count

\* Lines 94-95: if not self.reading_time_minutes or self.reading_time_minutes == 1.
ReadingTimeOf(args) ==
    IF args.reading_time_minutes = 0 \/ args.reading_time_minutes = 1
    THEN Max(1, WordCountOf(args) \div 200)
    ELSE args.reading_time_minutes

\* A slip: the thresholds belong to the lower bucket.
ContentTypeOf_inclusive(word_count) ==
    IF word_count <= 100 THEN "short"
    ELSE IF word_count <= 1500 THEN "medium"
    ELSE "long"

\* Lines 98-103.
ContentTypeOf(word_count) ==
    IF word_count < 100 THEN "short"
    ELSE IF word_count < 1500 THEN "medium"
    ELSE "long"

\* The object after __init__ and __post_init__.
PostInit(args) ==
    [constructed |-> TRUE,
     id |-> IF args.id = NoId THEN DerivedId(args.source, args.author, args.content)
            ELSE args.id,
     source |-> args.source,
     author |-> args.author,
     content |-> args.content,
     title |-> args.title,
     word_count |-> WordCountOf(args),
     reading_time_minutes |-> ReadingTimeOf(args),
     content_type |-> ContentTypeOf(WordCountOf(args))]

NoObject ==
    [constructed |-> FALSE, id |-> NoId, source |-> EmptyString, author |-> EmptyString,
     content |-> Content(EmptyString, 0), title |-> EmptyString, word_count |-> 0,
     reading_time_minutes |-> 0, content_type |-> "none"]

\* The arguments of the constructions of SpecItem: contents around the
\* thresholds of __post_init__, with and without word_count,
\* reading_time_minutes and content_type given.
ItemArgs ==
    [id : {NoId, GivenId},
     source : {<<"rss">>},
     author : {<<"al">>},
     content : {Content(EmptyString, 0), Content(<<"w99">>, 99), Content(<<"w100">>, 100),
                Content(<<"w199">>, 199), Content(<<"w400">>, 400),
                Content(<<"w1499">>, 1499), Content(<<"w1500">>, 1500)},
     title : {<<"t1">>},
     word_count : {0, 250, 2000},
     reading_time_minutes : {0, 1, 5},
     content_type : {"short", "long"}]

\* The arguments of the constructions of SpecItemPair: the strings that go
\* into the id, and the title, which does not.
PairArgs ==
    [id : {NoId, GivenId},
     source : {<<"a">>, <<"a", "b">>},
     author : {<<"c">>, <<"b", "c">>},
     content : {Content(<<"d">>, 1), Content(<<"c", "d">>, 1), Content(<<"e", "e", "d">>, 1)},
     title : {<<"t1">>, <<"t2">>},
     word_count : {0},
     reading_time_minutes : {1},
     content_type : {"short"}]

ItemInit ==
    /\ i_args \in [{1} -> ItemArgs]
    /\ i_obj = [k \in {1} |-> NoObject]

ItemPairInit ==
    /\ i_args \in [{1, 2} -> PairArgs]
    /\ i_obj = [k \in {1, 2} |-> NoObject]

\* EnhancedContentItem(**args): __init__ then __post_init__.
Construct(k) ==
    /\ ~i_obj[k].constructed
    /\ i_obj' = [i_obj EXCEPT ![k] = PostInit(i_args[k])]
    /\ UNCHANGED i_args

ItemFrame == UNCHANGED <<scoreVars, embVars, fetchVars, concVars, storeVars, queryVars,
        runVars, catVars, feedVars, upsertVars>>

ItemNext == \E k \in DOMAIN i_args : Construct(k) /\ ItemFrame

ItemSpecInit ==
    ItemInit /\ ScoreIdle /\ EmbIdle /\ FetchIdle /\ ConcIdle /\ StoreIdle /\ QueryIdle
    /\ RunIdle /\ CatIdle /\ FeedIdle /\ UpsertIdle

ItemPairSpecInit ==
    ItemPairInit /\ ScoreIdle /\ EmbIdle /\ FetchIdle /\ ConcIdle /\ StoreIdle /\ QueryIdle
    /\ RunIdle /\ CatIdle /\ FeedIdle /\ UpsertIdle

SpecItem == ItemSpecInit /\ [][ItemNext]_vars

SpecItemPair == ItemPairSpecInit /\ [][ItemNext]_vars

(***************************************************************************)
(* Claims about constructed items (SpecItem, SpecItemPair).                *)
(***************************************************************************)
Constructed == {k \in DOMAIN i_obj : i_obj[k].constructed}

\* C17, as stated: every constructed item has
\* reading_time_minutes = max(1, word_count // 200).
C17_ReadingTime ==
    \A k \in Constructed :
        i_obj[k].reading_time_minutes = Max(1, i_obj[k].word_count \div 200)

\* C18: every constructed item is short iff word_count < 100, medium iff
\* 100 <= word_count < 1500 and long otherwise, whatever content_type was given.
C18_ContentType ==
    \A k \in Constructed :
        /\ i_obj[k].content_type \in {"short", "medium", "long"}
        /\ i_obj[k].content_type = "short" <=> i_obj[k].word_count < 100
        /\ i_obj[k].content_type = "medium" <=>
              (100 <= i_obj[k].word_count /\ i_obj[k].word_count < 1500)
        /\ i_obj[k].content_type = "long" <=> i_obj[k].word_count >= 1500

\* An item of exactly 100 words, constructed with content_type "long", is medium.
C18_Witness ==
    \E k \in Constructed :
        /\ i_args[k].content_type = "long"
        /\ i_args[k].word_count = 0
        /\ i_obj[k].word_count = 100
        /\ i_obj[k].content_type = "medium"

\* The fields of (source, author, content) in which two constructions differ.
DifferingFields ==
    {f \in {"source", "author", "content"} : i_args[1][f] # i_args[2][f]}

\* The digests of the strings hashed for the two constructions collide.
DigestsCollide ==
    Md5Head(HashedString(i_args[1].source, i_args[1].author, i_args[1].content))
      = Md5Head(HashedString(i_args[2].source, i_args[2].author, i_args[2].content))

\* C19: two items constructed with an empty id get the same id when
\* (source, author, content) agree, whatever the titles, and different ids
\* when exactly one of the three differs, unless the contents differ and the
\* digests collide.
C19_IdDeterministic ==
    (Constructed = {1, 2} /\ i_args[1].id = NoId /\ i_args[2].id = NoId) =>
        /\ DifferingFields = {} => i_obj[1].id = i_obj[2].id
        /\ DifferingFields \in {{"source"}, {"author"}} => i_obj[1].id # i_obj[2].id
        /\ DifferingFields = {"content"} => (i_obj[1].id # i_obj[2].id \/ DigestsCollide)

\* Two items with the same triple and different titles have the same id.
C19_Witness ==
    /\ Constructed = {1, 2}
    /\ i_args[1].id = NoId
    /\ i_args[2].id = NoId
    /\ DifferingFields = {}
    /\ i_args[1].title # i_args[2].title
    /\ i_obj[1].id = i_obj[2].id

\* ---------------------------------------------------------------------------
\* Claims about the phases of one fetch_user_tweets call (SpecFetch)
\* ---------------------------------------------------------------------------

\* SpecFetch with the scheduling of the event loop: the coroutine is resumed
\* whenever an awaited operation has returned or raised, and every awaited
\* page operation returns or raises (each carries a timeout).
SpecFetchFair == SpecFetch /\ WF_vars(FetchNext)

\* wait_for_selector was awaited for every selector of tweet_selectors and
\* raised each time.
AllSelectorsMissed ==
    /\ Len(f_hist.waits) = Len(tweet_selectors)
    /\ \A i \in 1..Len(f_hist.waits) : ~f_hist.waits[i].found

\* page.goto was awaited for every url of urls_to_try and raised each time.
AllUrlsFailed ==
    /\ Len(f_hist.nav) = Len(urls_to_try)
    /\ \A i \in 1..Len(f_hist.nav) : ~f_hist.nav[i].loaded

\* The call came back with the list, or page.close() of the finally block is
\* the one thing that raised.
ReturnsUnlessCloseFails ==
    /\ f_pc \in {"close", "done"}
    /\ ~f_pending
    /\ f_pc = "done" => (f_result = "returned" \/ (f_result = "raised" /\ f_fault = "close"))

\* C23: when no selector of tweet_selectors appears on the loaded page, the
\* call goes straight to the finally block and returns the empty list: no
\* node list is queried, no node is read, nothing is scrolled or stored, and
\* the selector misses leave no exception behind (the call raises only if
\* page.close() itself raises).
C23_NoSelectorReturnsEmpty ==
    AllSelectorsMissed =>
        /\ f_hist.ops = {}
        /\ f_hist.scrolls = 0
        /\ f_hist.stored = <<>>
        /\ f_hist.emitted = <<>>
        /\ f_items = <<>>
        /\ ReturnsUnlessCloseFails

C23_Witness ==
    /\ AllSelectorsMissed
    /\ f_hist.nav[Len(f_hist.nav)].loaded
    /\ f_pc = "done"
    /\ f_result = "returned"
    /\ f_items = <<>>

\* The state part of C25: page.evaluate is called at most max_scroll_attempts
\* times, the list never holds more than max_tweets items (none when
\* max_tweets <= 0), and no page or store operation is pending once
\* max_tweets items are in the list.
PaginationBounded ==
    /\ f_hist.scrolls <= max_scroll_attempts
    /\ f_scroll_attempts <= max_scroll_attempts
    /\ Len(f_items) <= Max(f_max_tweets, 0)
    /\ f_pc \in {"query", "node", "store", "scroll"} => Len(f_items) < f_max_tweets

\* C25: the pagination loop is bounded as PaginationBounded says, in every
\* state, and every call ends (returns or raises), whatever the page yields
\* and whichever stores fail.
C25_PaginationTerminates == []PaginationBounded /\ <>(f_pc = "done")

\* Every store failed and every scroll allowed was made.
C25_Witness ==
    /\ f_pc = "done"
    /\ f_result = "returned"
    /\ f_max_tweets > 0
    /\ f_hist.scrolls = max_scroll_attempts
    /\ "store" \in f_hist.ops
    /\ f_hist.stored = <<>>
    /\ f_items = <<>>

\* query_selector_all or page.evaluate raised inside the while loop and the
\* handler of line 514 took over.
Aborted == f_fault \in {"query", "scroll"} /\ f_pc \in {"close", "done"}

\* C26: after query_selector_all or page.evaluate raised in the loop, the
\* list of the call is the list of the items emitted before, in the order of
\* emission; with a db_manager these are exactly the items store_content_item
\* accepted, no item is in flight, and the call returns the list.
C26_AbortReturnsEmitted ==
    Aborted =>
        /\ f_items = f_hist.emitted
        /\ f_has_db => f_hist.stored = f_items
        /\ f_cur = "none"
        /\ ~f_pending
        /\ f_pc = "done" => f_result = "returned"

C26_Witness ==
    /\ Aborted
    /\ f_pc = "done"
    /\ f_result = "returned"
    /\ f_has_db
    /\ "store" \in f_hist.ops
    /\ Len(f_items) = 1
    /\ f_hist.stored = f_items

\* C27: the urls of urls_to_try are navigated to in list order, a url only
\* after page.goto raised for every url before it and none after the first
\* page.goto that returned; when page.goto raised for all of them no selector
\* is awaited and the empty list is returned.
C27_UrlsInOrder ==
    /\ Len(f_hist.nav) <= Len(urls_to_try)
    /\ \A i \in 1..Len(f_hist.nav) : f_hist.nav[i].url = urls_to_try[i]
    /\ \A i \in 1..(Len(f_hist.nav) - 1) : ~f_hist.nav[i].loaded
    /\ f_hist.waits # <<>> => f_hist.nav # <<>> /\ f_hist.nav[Len(f_hist.nav)].loaded
    /\ AllUrlsFailed =>
            /\ f_hist.waits = <<>>
            /\ f_hist.ops = {}
            /\ f_items = <<>>
            /\ ReturnsUnlessCloseFails

C27_Witness ==
    /\ AllUrlsFailed
    /\ f_pc = "done"
    /\ f_result = "returned"
    /\ f_hist.nav[1].url = "https://x.com/"
    /\ f_hist.nav[2].url = "https://twitter.com/"

\* ---------------------------------------------------------------------------
\* Claim about the tiers of get_embedding (SpecEmb)
\* ---------------------------------------------------------------------------

\* The step is the one in which caller p goes on to the position pos.
Reaches(p, pos) == e_pc[p] # pos /\ e_pc'[p] = pos

\* The step is the one in which the call of p returns the provider's vector.
ReturnsGenerated(p) == e_pc[p] = "memoize" /\ e_pc'[p] = "idle"

\* C24: a call reads the durable table only after missing the in-process map,
\* and requests the provider only after missing the durable table too; a hit
\* in the durable table is copied to the map and returned; when a call returns
\* the vector the provider gave it, the map and the durable table both hold
\* that vector for the hash of the text.
C24_TiersInOrderWriteThrough ==
    [][\A p \in EmbCallers :
        /\ Reaches(p, "read") =>
                e_pc[p] = "idle" /\ e_mem[TextHash(e_text'[p])] = "none"
        /\ Reaches(p, "provider") =>
                e_pc[p] = "read" /\ e_store[TextHash(e_text[p])] = "none"
        /\ (e_pc[p] = "read" /\ e_pc'[p] = "idle" /\ e_ret'[p].outcome = "hit_db") =>
                /\ e_mem'[TextHash(e_text[p])] = e_store[TextHash(e_text[p])]
                /\ e_ret'[p].value = e_store[TextHash(e_text[p])]
        /\ ReturnsGenerated(p) =>
                /\ e_mem'[TextHash(e_text[p])] = e_ret'[p].value
                /\ e_store'[TextHash(e_text[p])] = e_ret'[p].value
      ]_vars

\* ---------------------------------------------------------------------------
\* Claim about the order of the steps of store_content_item (SpecStore)
\* ---------------------------------------------------------------------------

\* The columns of the row of id that store_content_item writes.
WrittenColumns(rows, id) ==
    <<rows[id].present, rows[id].embedding, rows[id].relevance_score,
      rows[id].source_metadata>>

\* C29: a call of store_content_item computes the embedding, then the score,
\* then issues the insert: the scorer is entered only from the embedding step
\* with item.embedding set, its query is issued with that embedding, the
\* insert is awaited only once the scorer has returned, and a row is written
\* only by the insert of the call, for the id of its item; after an insert
\* that returned True the row holds the embedding and the score the call
\* computed.
C29_EmbeddingScoreInsert ==
    [][/\ (t_pc # "relevance" /\ t_pc' = "relevance") =>
                t_pc = "embedding" /\ t_emb' # "none"
       /\ (t_pc # "insert" /\ t_pc' = "insert") =>
                t_pc = "relevance" /\ t_emb # "none" /\ t_emb' = t_emb /\ t_path' # "none"
       /\ (t_query' # t_query /\ t_query' # "none") =>
                t_pc = "relevance" /\ t_query' = t_emb
       /\ \A id \in Ids :
            WrittenColumns(t_rows', id) # WrittenColumns(t_rows, id) =>
                /\ t_pc = "insert"
                /\ t_pc' = "done"
                /\ id = t_item.id
                /\ t_rows'[id].embedding = t_emb
                /\ t_rows'[id].relevance_score = t_score
       /\ (t_pc = "insert" /\ t_result' = "true") =>
                /\ t_rows'[t_item.id].present
                /\ t_rows'[t_item.id].embedding = t_emb
                /\ t_rows'[t_item.id].relevance_score = t_score
      ]_vars

\* A second store of an id has replaced the embedding and the score of its row
\* by the values of the call, the score taken from rated neighbours.
C29_Witness ==
    /\ t_pc = "done"
    /\ t_result = "true"
    /\ t_path = "knn"
    /\ t_query = t_emb
    /\ t_prev.present
    /\ t_prev.embedding # t_emb
    /\ t_prev.relevance_score # t_score
    /\ t_rows[t_item.id].embedding = t_emb
    /\ t_rows[t_item.id].relevance_score = t_score

(***************************************************************************)
(* enhanced_fetch_all_sources: one run (SpecRun)                           *)
(***************************************************************************)
\* The most items one harvest returns (max_per_source, and what the source has).
MaxPerSource == 1

\* Line 648: the handles harvested when the argument is None or empty.
default_twitter_usernames == <<"S4mmyEth", "PinkBrains_io", "naval", "sama", "kupor">>

\* Lines 649-652: the feeds harvested when the argument is None or empty.
default_rss_feeds ==
    <<"https://techcrunch.com/feed/", "https://www.coindesk.com/arc/outboundfeeds/rss/">>

\* An argument that is a list.
ListArg(list) == [none |-> FALSE, list |-> list]

\* The arguments of the sample runs: None, the empty list (as fetch_tweets
\* passes for rss_feeds), and short lists.
UsernameArgs == {NoneArg, ListArg(<<>>), ListArg(<<"sama">>), ListArg(<<"sama", "naval">>)}

FeedArgs == {NoneArg, ListArg(<<>>), ListArg(<<"https://techcrunch.com/feed/">>)}

\* Lines 648-649: arg or default: None and the empty list are both falsy.
OrDefault(arg, default) == IF arg.none \/ arg.list = <<>> THEN default ELSE arg.list

\* A slip: the handler of initialize logs the error and does not raise it.
InitializeReraises_swallowed == FALSE

\* Lines 128-130: except Exception: logger.error(...); raise
InitializeReraises == TRUE

\* A slip: the handler of a handle's failure ends the run instead of the iteration.
HandleExceptContinues_aborts == FALSE

\* Lines 676-678: except Exception: logger.error(...); continue
HandleExceptContinues == TRUE

\* The sites of initialize, of cleanup and of close.
InitSites == {"create_pool", "register_vector"}

CleanupSites == {"context.close", "browser.close"}

\* Lines 666, 683: the block entered after initialization and after the
\* handles' block.
FirstBlock(usernames, feeds) ==
    IF usernames # <<>> THEN "handle" ELSE IF feeds # <<>> THEN "feed" ELSE "query"

AfterCleanup(feeds) == IF feeds # <<>> THEN "feed" ELSE "query"

\* A slip: the items of a source are put in front of the list.
Extend_prepended(all_items, source, n) == [i \in 1..n |-> source] \o all_items

\* all_items.extend(items): n items of the source.
Extend(all_items, source, n) == all_items \o [i \in 1..n |-> source]

\* self.browser and self.context after a fetch_user_tweets call that raised:
\* _init_browser stopped at launch, at new_context or at add_init_script, or
\* the session stood and new_page or page.close raised (or, with a browser
\* but no context, new_page was called on None).
RaisedSessions(browser, context) ==
    IF browser = "none"
    THEN {<<"none", "none">>, <<"set", "none">>, <<"set", "set">>}
    ELSE {<<browser, context>>}

RunInit ==
    /\ r_args \in [twitter_usernames : UsernameArgs, rss_feeds : FeedArgs]
    /\ r_pc = "initialize"
    /\ r_db_pool = "none"
    /\ r_twitter_usernames = <<>>
    /\ r_rss_feeds = <<>>
    /\ r_idx = 0
    /\ r_browser = "none"
    /\ r_context = "none"
    /\ r_all_items = <<>>
    /\ r_stats = ZeroStats
    /\ r_high_quality_items = "unset"
    /\ r_pending = FALSE
    /\ r_attempts = <<>>
    /\ r_ops = {}
    /\ r_faults = {}
    /\ r_result = "none"

\* Lines 648-668: the defaults are applied, stats is built, the first block is
\* entered (twitter_fetcher is constructed with no browser).
RunBegins ==
    /\ r_twitter_usernames' = OrDefault(r_args.twitter_usernames, default_twitter_usernames)
    /\ r_rss_feeds' = OrDefault(r_args.rss_feeds, default_rss_feeds)
    /\ r_stats' = ZeroStats
    /\ r_idx' = 1
    /\ r_pc' = FirstBlock(OrDefault(r_args.twitter_usernames, default_twitter_usernames),
                          OrDefault(r_args.rss_feeds, default_rss_feeds))

\* Lines 644-645, 115-126: create_pool and register_vector succeed.
RunInitialized ==
    /\ r_pc = "initialize"
    /\ r_db_pool' = "open"
    /\ RunBegins
    /\ UNCHANGED <<r_args, r_browser, r_context, r_all_items, r_high_quality_items, r_pending,
                   r_attempts, r_ops, r_faults, r_result>>

\* Lines 645, 115-130: create_pool or register_vector raises; the handler
\* raises it again and line 645, outside the try, lets it go to the caller.
RunInitializeFails(site) ==
    /\ r_pc = "initialize"
    /\ r_db_pool' = IF site = "register_vector" THEN "open" ELSE "none"
    /\ r_faults' = r_faults \cup {site}
    /\ IF InitializeReraises
       THEN /\ r_result' = "raised"
            /\ r_pc' = "done"
            /\ UNCHANGED <<r_twitter_usernames, r_rss_feeds, r_stats, r_idx>>
       ELSE /\ RunBegins
            /\ UNCHANGED r_result
    /\ UNCHANGED <<r_args, r_browser, r_context, r_all_items, r_high_quality_items, r_pending,
                   r_attempts, r_ops>>

\* Lines 670, 680: the next handle, or cleanup after the last one.
NextHandle ==
    IF r_idx < Len(r_twitter_usernames)
    THEN r_idx' = r_idx + 1 /\ r_pc' = "handle"
    ELSE r_idx' = 1 /\ r_pc' = "cleanup"

\* Lines 672-675: fetch_user_tweets returns n items (each one stored, with its
\* embedding requested); the session stands.
RunHandleReturns(n) ==
    /\ r_pc = "handle"
    /\ ~(r_browser = "set" /\ r_context = "none")
    /\ r_browser' = "set"
    /\ r_context' = "set"
    /\ r_attempts' = Append(r_attempts, [source |-> r_twitter_usernames[r_idx],
                                         outcome |-> IF n = 0 THEN "empty" ELSE "items"])
    /\ r_all_items' = Extend(r_all_items, r_twitter_usernames[r_idx], n)
    /\ r_stats' = [r_stats EXCEPT !.twitter_items = @ + n]
    /\ r_ops' = r_ops \cup {"harvest"} \cup (IF n > 0 THEN {"embedding", "store"} ELSE {})
    /\ NextHandle
    /\ UNCHANGED <<r_args, r_db_pool, r_twitter_usernames, r_rss_feeds, r_high_quality_items,
                   r_pending, r_faults, r_result>>

\* Lines 672, 676-678: fetch_user_tweets raises; the handler logs and continues.
RunHandleRaises(session) ==
    /\ r_pc = "handle"
    /\ session \in RaisedSessions(r_browser, r_context)
    /\ r_browser' = session[1]
    /\ r_context' = session[2]
    /\ r_attempts' = Append(r_attempts, [source |-> r_twitter_usernames[r_idx],
                                         outcome |-> "raised"])
    /\ r_ops' = r_ops \cup {"harvest"}
    /\ r_faults' = r_faults \cup {"handle"}
    /\ IF HandleExceptContinues
       THEN NextHandle /\ UNCHANGED r_pending
       ELSE r_pending' = TRUE /\ r_pc' = "close" /\ UNCHANGED r_idx
    /\ UNCHANGED <<r_args, r_db_pool, r_twitter_usernames, r_rss_feeds, r_all_items, r_stats,
                   r_high_quality_items, r_result>>

\* Lines 680, 521-526: cleanup closes the context and the browser that are set.
RunCleanedUp ==
    /\ r_pc = "cleanup"
    /\ r_context' = IF r_context = "set" THEN "closed" ELSE r_context
    /\ r_browser' = IF r_browser = "set" THEN "closed" ELSE r_browser
    /\ r_idx' = 1
    /\ r_pc' = AfterCleanup(r_rss_feeds)
    /\ UNCHANGED <<r_args, r_db_pool, r_twitter_usernames, r_rss_feeds, r_all_items, r_stats,
                   r_high_quality_items, r_pending, r_attempts, r_ops, r_faults, r_result>>

\* Lines 680, 523-526: context.close() or browser.close() raises; line 680 is
\* in no inner try, so the exception leaves the outer try through its finally.
RunCleanupFails(site) ==
    /\ r_pc = "cleanup"
    /\ site = "context.close" => r_context = "set"
    /\ site = "browser.close" => r_browser = "set"
    /\ r_context' = IF site = "browser.close" /\ r_context = "set" THEN "closed" ELSE r_context
    /\ r_faults' = r_faults \cup {site}
    /\ r_pending' = TRUE
    /\ r_pc' = "close"
    /\ UNCHANGED <<r_args, r_db_pool, r_twitter_usernames, r_rss_feeds, r_idx, r_browser,
                   r_all_items, r_stats, r_high_quality_items, r_attempts, r_ops, r_result>>

\* Lines 687-691: fetch_feed_items returns n items; it catches every failure
\* of its own (lines 550, 630-633) and then returns what it has.
RunFeedReturns(n) ==
    /\ r_pc = "feed"
    /\ r_attempts' = Append(r_attempts, [source |-> r_rss_feeds[r_idx],
                                         outcome |-> IF n = 0 THEN "empty" ELSE "items"])
    /\ r_all_items' = Extend(r_all_items, r_rss_feeds[r_idx], n)
    /\ r_stats' = [r_stats EXCEPT !.rss_items = @ + n]
    /\ r_ops' = r_ops \cup {"harvest"} \cup (IF n > 0 THEN {"embedding", "store"} ELSE {})
    /\ IF r_idx < Len(r_rss_feeds)
       THEN r_idx' = r_idx + 1 /\ r_pc' = "feed"
       ELSE r_idx' = r_idx /\ r_pc' = "query"
    /\ UNCHANGED <<r_args, r_db_pool, r_twitter_usernames, r_rss_feeds, r_browser, r_context,
                   r_high_quality_items, r_pending, r_faults, r_result>>

\* Lines 696-708: total_stored is set; get_high_quality_content answers.
RunQueried(rows) ==
    /\ r_pc = "query"
    /\ r_stats' = [r_stats EXCEPT !.total_stored = Len(r_all_items)]
    /\ r_high_quality_items' = rows
    /\ r_ops' = r_ops \cup {"query"}
    /\ r_pc' = "close"
    /\ UNCHANGED <<r_args, r_db_pool, r_twitter_usernames, r_rss_feeds, r_idx, r_browser,
                   r_context, r_all_items, r_pending, r_attempts, r_faults, r_result>>

\* Lines 706-708, 299-301: the query fails inside get_high_quality_content,
\* which returns [].
RunQueryFails ==
    /\ r_pc = "query"
    /\ r_stats' = [r_stats EXCEPT !.total_stored = Len(r_all_items)]
    /\ r_high_quality_items' = "empty"
    /\ r_ops' = r_ops \cup {"query"}
    /\ r_faults' = r_faults \cup {"query"}
    /\ r_pc' = "close"
    /\ UNCHANGED <<r_args, r_db_pool, r_twitter_usernames, r_rss_feeds, r_idx, r_browser,
                   r_context, r_all_items, r_pending, r_attempts, r_result>>

\* Lines 710-717, 303-306: finally: db_manager.close(); the dict is returned,
\* or the exception that was propagating goes on.
RunClosed ==
    /\ r_pc = "close"
    /\ r_db_pool' = IF r_db_pool = "open" THEN "closed" ELSE r_db_pool
    /\ r_result' = IF r_pending THEN "raised" ELSE "returned"
    /\ r_pc' = "done"
    /\ UNCHANGED <<r_args, r_twitter_usernames, r_rss_feeds, r_idx, r_browser, r_context,
                   r_all_items, r_stats, r_high_quality_items, r_pending, r_attempts, r_ops,
                   r_faults>>

\* Line 717, 306: db_pool.close() raises in the finally block: the exception
\* replaces the return value.
RunCloseFails ==
    /\ r_pc = "close"
    /\ r_db_pool = "open"
    /\ r_faults' = r_faults \cup {"db_pool.close"}
    /\ r_result' = "raised"
    /\ r_pc' = "done"
    /\ UNCHANGED <<r_args, r_db_pool, r_twitter_usernames, r_rss_feeds, r_idx, r_browser,
                   r_context, r_all_items, r_stats, r_high_quality_items, r_pending,
                   r_attempts, r_ops>>

RunFrame ==
    UNCHANGED <<scoreVars, embVars, fetchVars, concVars, storeVars, queryVars, itemVars,
                catVars, feedVars, upsertVars>>

RunNext ==
    \/ RunInitialized /\ RunFrame
    \/ \E site \in InitSites : RunInitializeFails(site) /\ RunFrame
    \/ \E n \in 0..MaxPerSource : RunHandleReturns(n) /\ RunFrame
    \/ \E session \in {"none", "set"} \X {"none", "set"} : RunHandleRaises(session) /\ RunFrame
    \/ RunCleanedUp /\ RunFrame
    \/ \E site \in CleanupSites : RunCleanupFails(site) /\ RunFrame
    \/ \E n \in 0..MaxPerSource : RunFeedReturns(n) /\ RunFrame
    \/ \E rows \in {"rows", "empty"} : RunQueried(rows) /\ RunFrame
    \/ RunQueryFails /\ RunFrame
    \/ RunClosed /\ RunFrame
    \/ RunCloseFails /\ RunFrame

RunSpecInit ==
    RunInit /\ ScoreIdle /\ EmbIdle /\ FetchIdle /\ ConcIdle /\ StoreIdle /\ QueryIdle
    /\ ItemIdle /\ CatIdle /\ FeedIdle /\ UpsertIdle

SpecRun == RunSpecInit /\ [][RunNext]_vars

\* initialize returned without raising.
InitializeSucceeded == r_pc # "initialize" /\ r_faults \cap InitSites = {}

\* The harvests of the run in the order of lines 670 and 687.
Planned == r_twitter_usernames \o r_rss_feeds

\* C21: when create_pool or register_vector raises, the run ends at once with
\* that exception: no handle or feed is harvested, no embedding is requested,
\* nothing is stored or queried; and no harvest is ever made without the pool.
C21_InitFailurePropagates ==
    /\ r_faults \cap InitSites # {} =>
            /\ r_pc = "done"
            /\ r_result = "raised"
            /\ r_attempts = <<>>
            /\ r_all_items = <<>>
            /\ r_ops = {}
    /\ r_attempts # <<>> => r_db_pool # "none"

C21_Witness ==
    /\ r_faults = {"create_pool"}
    /\ r_db_pool = "none"
    /\ r_pc = "done"
    /\ r_result = "raised"

\* C22: a run whose initialization succeeded ends by returning all_items and
\* stats (with total_stored = len(all_items) = twitter_items + rss_items),
\* whatever fails on the way.
C22_RunAlwaysReturns ==
    (InitializeSucceeded /\ r_pc = "done") =>
        /\ r_result = "returned"
        /\ r_stats.total_stored = Len(r_all_items)
        /\ r_stats.twitter_items + r_stats.rss_items = Len(r_all_items)

\* C30 for the runs in which cleanup does not raise: the harvests made so far
\* are the first ones of Planned, one attempt each, in order, whatever their
\* outcomes; when the run has come to the query without a failure of cleanup
\* all of Planned has been attempted.
C30_EverySourceAttemptedInOrder ==
    /\ Len(r_attempts) <= Len(Planned)
    /\ \A i \in 1..Len(r_attempts) : r_attempts[i].source = Planned[i]
    /\ r_pc = "feed" => Len(r_attempts) >= Len(r_twitter_usernames)
    /\ (/\ InitializeSucceeded
        /\ r_pc \in {"query", "close", "done"}
        /\ r_faults \cap CleanupSites = {}) => Len(r_attempts) = Len(Planned)

\* The first handle raised, a later one came back empty, a later one still
\* gave items, and the feeds were harvested after the handles.
C30_Witness ==
    /\ r_pc = "done"
    /\ r_result = "returned"
    /\ Len(r_attempts) = Len(Planned)
    /\ r_attempts[1].outcome = "raised"
    /\ \E i, j \in 1..Len(r_twitter_usernames) :
            /\ i < j
            /\ r_attempts[i].outcome = "empty"
            /\ r_attempts[j].outcome = "items"
    /\ r_attempts[Len(r_attempts)].outcome = "items"

(***************************************************************************)
(* TwitterFetcher._auto_categorize (SpecCat)                               *)
(***************************************************************************)
\* Lines 354-371: the keyword lists in the order of the if/elif chain, with
\* the category each one returns.
category_keywords ==
    << [category |-> "tech_ai",
        words |-> {"gpt", "ai", "ml", "artificial intelligence", "neural", "llm"}],
       [category |-> "crypto",
        words |-> {"bitcoin", "crypto", "defi", "ethereum", "blockchain"}],
       [category |-> "politics",
        words |-> {"congress", "senate", "policy", "legislation", "government"}],
       [category |-> "regulation",
        words |-> {"sec", "regulation", "compliance", "federal"}] >>

\* any(word in content_lower for word in words)
AnyOccurs(words, lowered) == \E w \in words : Occurs(w, lowered)

\* The first list from position i on with a word in the lowered text, 0 if none.
RECURSIVE FirstMatch(_, _)
FirstMatch(lowered, i) ==
    IF i > Len(category_keywords) THEN 0
    ELSE IF AnyOccurs(category_keywords[i].words, lowered) THEN i
    ELSE FirstMatch(lowered, i + 1)

\* Lines 348-371.  author_lower is computed (line 351) and never read.
AutoCategorize(content, author) ==
    LET content_lower == Lower(content)
        author_lower == Lower(author)
        i == FirstMatch(content_lower, 1)
    IN  IF i = 0 THEN "business" ELSE category_keywords[i].category

\* The substrings that occur in the sample contents and handles.
CatVocabulary ==
    { <<"gpt", "upper">>, <<"bitcoin", "lower">>, <<"senate", "lower">>, <<"sec", "upper">>,
      <<"federal", "lower">>, <<"good morning", "lower">> }

\* Handles: sama, OpenAI (in which "ai" occurs), CryptoCobain.
CatAuthors ==
    { {<<"sama", "lower">>}, {<<"openai", "upper">>, <<"ai", "upper">>},
      {<<"cryptocobain", "upper">>, <<"crypto", "upper">>} }

CatInit ==
    /\ k_content \in SUBSET CatVocabulary
    /\ k_author \in CatAuthors
    /\ k_category = "none"

\* primary_category=self._auto_categorize(text, username) (line 485).
Categorize ==
    /\ k_category = "none"
    /\ k_category' = AutoCategorize(k_content, k_author)
    /\ UNCHANGED <<k_content, k_author>>

CatFrame ==
    UNCHANGED <<scoreVars, embVars, fetchVars, concVars, storeVars, queryVars, itemVars,
                runVars, feedVars, upsertVars>>

CatNext ==
    \/ Categorize /\ CatFrame

CatSpecInit ==
    CatInit /\ ScoreIdle /\ EmbIdle /\ FetchIdle /\ ConcIdle /\ StoreIdle /\ QueryIdle
    /\ ItemIdle /\ RunIdle /\ FeedIdle /\ UpsertIdle

SpecCat == CatSpecInit /\ [][CatNext]_vars

\* The first list with a word occurring in the lowered content or in the
\* lowered handle, 0 if none.
FirstMatchInEither(content, author) == FirstMatch(Lower(content) \cup Lower(author), 1)

\* C28: the category returned is the one of the first keyword list with a
\* word occurring in the content or in the handle, and it is business exactly
\* when no word of any list occurs in either.
C28_FirstMatchOverContentAndHandle ==
    k_category \notin {"none", "off"} =>
        /\ FirstMatchInEither(k_content, k_author) # 0 =>
                k_category = category_keywords[FirstMatchInEither(k_content, k_author)].category
        /\ k_category = "business" <=> FirstMatchInEither(k_content, k_author) = 0


(***************************************************************************)
(* Claims about the pages of a fetch (SpecFetch).                          *)
(***************************************************************************)

\* new_page of line 381 has returned a page in this call.
PageOpened == f_page # "none"

\* C31, as stated: a call that opened a page and has returned or raised has
\* closed it, by exactly one page.close().
C31_EveryPageClosed ==
    (f_pc = "done" /\ PageOpened) => (f_page = "closed" /\ f_hist.closes = 1)

\* C31, amended: page.close() is awaited exactly once for the page of the
\* call, on every path, before the call returns or raises, and never without
\* a page; a page that is still open afterwards is one whose close raised,
\* and the call raised with it; browser and context are still set when the
\* call ends.
C31_PageCloseAwaitedOnce ==
    /\ f_hist.closes <= 1
    /\ ~PageOpened => f_hist.closes = 0
    /\ f_hist.closes = 1 => f_pc = "done"
    /\ (f_pc = "done" /\ PageOpened) => f_hist.closes = 1
    /\ (f_pc = "done" /\ f_page = "open") => (f_result = "raised" /\ f_fault = "close")
    /\ (f_pc = "done" /\ f_result = "returned") => f_page = "closed"
    /\ PageOpened => (f_browser = "set" /\ f_context = "set")

\* A fetch that was aborted in the middle of the loop after an item was
\* emitted has closed its page and returned.
C31_Witness ==
    /\ f_pc = "done"
    /\ f_fault \in {"query", "scroll"}
    /\ f_items # <<>>
    /\ f_page = "closed"
    /\ f_hist.closes = 1
    /\ f_result = "returned"


\* The texts of the nodes whose store_content_item returned False so far.
StoreFailed == {f_hist.attempted[i] : i \in 1..Len(f_hist.attempted)}
                    \ ({f_hist.stored[i] : i \in 1..Len(f_hist.stored)} \cup {f_cur})

\* C36: the hash of a text is in seen_content when store_content_item is
\* awaited for it and stays there, so no text is handed to the store twice in
\* a call; a text whose store failed is neither emitted nor counted, and
\* tweet_count is the length of the emitted list.
C36_SeenBeforeStore ==
    /\ f_pc = "store" => ContentHash(f_cur) \in f_seen
    /\ \A i \in 1..Len(f_hist.attempted) : ContentHash(f_hist.attempted[i]) \in f_seen
    /\ \A i, j \in 1..Len(f_hist.attempted) :
            f_hist.attempted[i] = f_hist.attempted[j] => i = j
    /\ \A text \in StoreFailed : \A i \in 1..Len(f_items) : f_items[i] # text
    /\ f_tweet_count = Len(f_items)
    /\ f_items = f_hist.emitted
    /\ f_has_db => f_tweet_count = Len(f_hist.attempted) - Cardinality(StoreFailed)
                        - (IF f_pc = "store" THEN 1 ELSE 0)

\* After a failed store and a scroll the same node comes up again and is
\* skipped as a duplicate, while another node was stored and counted.
C36_Witness ==
    /\ StoreFailed # {}
    /\ f_hist.scrolls >= 1
    /\ f_event = "duplicate"
    /\ f_tweet_count = 1
    /\ Len(f_hist.attempted) = 2

(***************************************************************************)
(* Claims about the two cache tiers of get_embedding (SpecEmb).            *)
(***************************************************************************)

\* C34, as stated: whenever the in-process map and embedding_cache both hold
\* an entry for a hash, they hold the same vector.
C34_TiersAgree ==
    \A h \in Hashes :
        (e_mem[h] # "none" /\ e_store[h] # "none") => e_mem[h] = e_store[h]

\* The outcomes of a call that ended in the handler of lines 171-174.
FailedOutcomes == {"provider_failed", "write_failed"}

\* No caller but p has begun a call.
OnlyCaller(p) ==
    \A q \in EmbCallers \ {p} : e_pc[q] = "idle" /\ e_ret[q] = NoCall

\* Caller p is in a call on the text of its previous call, which ended in the
\* handler, or has completed that call.
CallsAgainAfterFailure(p) ==
    /\ e_before[p].outcome \in FailedOutcomes
    /\ e_before[p].text = e_text[p]
    /\ e_pc[p] # "idle" \/ e_ret[p].text = e_text[p]

\* C35: the zero vector is in neither tier; the step by which a call ends in
\* the handler returns the zero vector and changes neither tier; a later call
\* of the caller on the same text, with no other call in between, finds both
\* tiers without an entry for the hash and is not answered from a tier: past
\* the read of embedding_cache it requests the provider.
C35_FailureVectorNeverCached ==
    /\ [](\A h \in Hashes : e_mem[h] # ZeroVector /\ e_store[h] # ZeroVector)
    /\ [](\A p \in EmbCallers :
            (OnlyCaller(p) /\ CallsAgainAfterFailure(p)) =>
                /\ e_pc[p] = "read" =>
                        /\ e_mem[TextHash(e_text[p])] = "none"
                        /\ e_store[TextHash(e_text[p])] = "none"
                /\ e_pc[p] = "idle" => e_ret[p].outcome \notin {"hit_mem", "hit_db"})
    /\ [][\A p \in EmbCallers :
            (e_pc[p] # "idle" /\ e_pc'[p] = "idle" /\ e_ret'[p].outcome \in FailedOutcomes) =>
                /\ e_ret'[p].value = ZeroVector
                /\ e_mem' = e_mem
                /\ e_store' = e_store]_vars

\* A call failed at the durable write; the next call on the same text asked
\* the provider again and returned its vector.
C35_Witness ==
    /\ OnlyCaller(1)
    /\ TwoCallsSameText(1)
    /\ e_before[1].outcome = "write_failed"
    /\ e_ret[1].outcome = "generated"

(***************************************************************************)
(* Claims about the result and the order of a run (SpecRun).               *)
(***************************************************************************)

\* The place of a source in the order of the harvests.
PlannedIndex(source) == CHOOSE i \in 1..Len(Planned) : Planned[i] = source

\* The number of items of all_items that come from the sources of the list.
ItemsFrom(sources) ==
    Cardinality({i \in 1..Len(r_all_items) :
                    \E k \in 1..Len(sources) : sources[k] = r_all_items[i]})

\* C38: in the result of a run total_stored = twitter_items + rss_items =
\* len(all_items); twitter_items counts the items of the handles and
\* rss_items those of the feeds; all_items has the items of the handles in
\* handle order, then the items of the feeds in feed order.
C38_StatsMatchItemsInSourceOrder ==
    r_result = "returned" =>
        /\ r_stats.total_stored = r_stats.twitter_items + r_stats.rss_items
        /\ r_stats.total_stored = Len(r_all_items)
        /\ r_stats.twitter_items = ItemsFrom(r_twitter_usernames)
        /\ r_stats.rss_items = ItemsFrom(r_rss_feeds)
        /\ \A i, j \in 1..Len(r_all_items) :
                i < j => PlannedIndex(r_all_items[i]) <= PlannedIndex(r_all_items[j])

\* A run over two handles and a feed that returned an item of each.
C38_Witness ==
    /\ r_result = "returned"
    /\ Len(r_twitter_usernames) = 2
    /\ r_stats.twitter_items = 2
    /\ r_stats.rss_items = 1
    /\ r_stats.total_stored = 3

\* The pool of enhanced_fetch_all_sources is closed when the run has returned.
PoolClosedOnReturn == r_result = "returned" => r_db_pool = "closed"

\* C39: after initialize has succeeded the run ends only through the finally
\* of line 717, where db_manager.close() is called once, as the last step: no
\* harvest, store or query follows it and the pool is not closed earlier.
\* cleanup is called once, when the fetch of the last handle has finished,
\* every feed is fetched after it, and no handle is fetched after it.
C39_CloseLastCleanupBetween ==
    /\ []PoolClosedOnReturn
    /\ [][/\ (r_pc' = "done" /\ r_pc # "initialize") => r_pc = "close"
          /\ r_pc = "close" =>
                /\ r_pc' = "done"
                /\ r_ops' = r_ops
                /\ r_all_items' = r_all_items
                /\ r_attempts' = r_attempts
          /\ r_pc' = "close" => r_pc \in {"cleanup", "query"}
          /\ r_db_pool' # r_db_pool => (r_pc = "initialize" \/ r_pc = "close")
          /\ r_pc' = "cleanup" =>
                /\ r_pc = "handle"
                /\ r_idx = Len(r_twitter_usernames)
                /\ Len(r_attempts') = Len(r_twitter_usernames)
          /\ r_pc = "cleanup" => r_pc' \in {"feed", "query", "close"}
          /\ r_pc' = "handle" => r_pc \in {"initialize", "handle"}
          /\ r_pc' = "feed" => r_pc \in {"cleanup", "feed"}
          /\ r_pc = "feed" => r_pc' \in {"feed", "query"}
          /\ r_pc = "query" => r_pc' = "close"]_vars

\* cleanup raised after the handles: the pool was closed on the way out and
\* the exception reached the caller.
C39_Witness ==
    /\ r_pc = "done"
    /\ r_faults \cap CleanupSites # {}
    /\ r_db_pool = "closed"
    /\ r_result = "raised"
    /\ Len(r_attempts) = Len(r_twitter_usernames)

\* The handles whose fetch_user_tweets call is awaited.
InFlightHandles == IF r_pc = "handle" THEN {r_idx} ELSE {}

\* The feeds whose fetch_feed_items call is awaited.
InFlightFeeds == IF r_pc = "feed" THEN {r_idx} ELSE {}

\* Lines 670-694: each fetch is awaited inside its for loop before the next
\* iteration begins, so at most one fetch is in flight.
OneFetchAtATime == Cardinality(InFlightHandles \cup InFlightFeeds) <= 1

\* The run goes on as long as a step is awaited.
SpecRunFair == SpecRun /\ WF_vars(RunNext)

\* C33, as stated: in a run over several handles more than one handle fetch
\* comes to be in flight at the same time, while at most one feed fetch is in
\* flight at any time.
C33_HandlesOverlapFeedsDoNot ==
    /\ [](Cardinality(InFlightFeeds) <= 1)
    /\ (r_pc = "handle" /\ Len(r_twitter_usernames) > 1)
            ~> (Cardinality(InFlightHandles) > 1)

(***************************************************************************)
(* SpecFeed: one call of RSSFetcher.fetch_feed_items.  feedparser.parse is *)
(* synchronous; the only await is store_content_item.  The entries of the  *)
(* parsed feed are named by their place in feed.entries.  Building the     *)
(* item of an entry (lines 564-614) may raise; store_content_item returns  *)
(* True or False.                                                          *)
(***************************************************************************)
MaxEntries == 4

MaxItems == 3

\* seq[:k] of Python: the first k elements, all of them when k exceeds the
\* length; a negative k counts from the end.
SliceTo(seq, k) ==
    IF k >= 0
    THEN SubSeq(seq, 1, Min(k, Len(seq)))
    ELSE SubSeq(seq, 1, Max(0, Len(seq) + k))

\* Line 563: feed.entries[:max_items]
Capped(entries, max_items) == SliceTo(entries, max_items)

\* A slip: the handler of an entry ends the loop; items is returned as it is.
EntryExceptContinues_aborts == FALSE

\* Lines 624-626: except Exception: logger.warning(...); continue
EntryExceptContinues == TRUE

FeedInit ==
    /\ d_max_items \in 0..MaxItems
    /\ d_has_db \in BOOLEAN
    /\ d_pc = "parse"
    /\ d_n = -1
    /\ d_entries = <<>>
    /\ d_i = 0
    /\ d_items = <<>>
    /\ d_log = <<>>
    /\ d_result = "none"

\* Lines 563, 628-633: the for loop takes the entry at place i of the slice,
\* or ends, and items is returned.
FeedLoop(i, entries) ==
    /\ d_i' = i
    /\ IF i <= Len(entries)
       THEN d_pc' = "entry" /\ d_result' = "none"
       ELSE d_pc' = "done" /\ d_result' = "returned"

\* Lines 558-563: the feed is parsed and has n entries; the loop begins.
FeedParsed(n) ==
    /\ d_pc = "parse"
    /\ d_n' = n
    /\ d_entries' = Capped([e \in 1..n |-> e], d_max_items)
    /\ FeedLoop(1, Capped([e \in 1..n |-> e], d_max_items))
    /\ UNCHANGED <<d_max_items, d_has_db, d_items, d_log>>

\* Lines 558, 630-633: feedparser.parse raises; the outer handler logs and
\* the empty list is returned.
FeedParseFails ==
    /\ d_pc = "parse"
    /\ d_pc' = "done"
    /\ d_result' = "returned"
    /\ UNCHANGED <<d_max_items, d_has_db, d_n, d_entries, d_i, d_items, d_log>>

\* Lines 564-614, 624-626: reading the entry or building its item raises; the
\* entry is skipped.
FeedEntryFails ==
    /\ d_pc = "entry"
    /\ d_log' = Append(d_log, [entry |-> d_entries[d_i], outcome |-> "error"])
    /\ IF EntryExceptContinues
       THEN FeedLoop(d_i + 1, d_entries)
       ELSE d_pc' = "done" /\ d_result' = "returned" /\ UNCHANGED d_i
    /\ UNCHANGED <<d_max_items, d_has_db, d_n, d_entries, d_items>>

\* Lines 564-618: the item is built; with a db_manager store_content_item is
\* awaited.
FeedEntryToStore ==
    /\ d_pc = "entry"
    /\ d_has_db
    /\ d_pc' = "store"
    /\ UNCHANGED <<d_max_items, d_has_db, d_n, d_entries, d_i, d_items, d_log, d_result>>

\* Lines 564-614, 621-622: the item is built; without a db_manager it is
\* appended.
FeedEntryEmitted ==
    /\ d_pc = "entry"
    /\ ~d_has_db
    /\ d_items' = Append(d_items, d_entries[d_i])
    /\ d_log' = Append(d_log, [entry |-> d_entries[d_i], outcome |-> "emitted"])
    /\ FeedLoop(d_i + 1, d_entries)
    /\ UNCHANGED <<d_max_items, d_has_db, d_n, d_entries>>

\* Lines 618-620: store_content_item returns True; the item is appended.
FeedStored ==
    /\ d_pc = "store"
    /\ d_items' = Append(d_items, d_entries[d_i])
    /\ d_log' = Append(d_log, [entry |-> d_entries[d_i], outcome |-> "emitted"])
    /\ FeedLoop(d_i + 1, d_entries)
    /\ UNCHANGED <<d_max_items, d_has_db, d_n, d_entries>>

\* Lines 618-619: store_content_item returns False; the item is left out.
FeedStoreFails ==
    /\ d_pc = "store"
    /\ d_log' = Append(d_log, [entry |-> d_entries[d_i], outcome |-> "store_failed"])
    /\ FeedLoop(d_i + 1, d_entries)
    /\ UNCHANGED <<d_max_items, d_has_db, d_n, d_entries, d_items>>

FeedFrame ==
    UNCHANGED <<scoreVars, embVars, fetchVars, concVars, storeVars, queryVars, itemVars,
                runVars, catVars, upsertVars>>

FeedNext ==
    \/ \E n \in 0..MaxEntries : FeedParsed(n) /\ FeedFrame
    \/ FeedParseFails /\ FeedFrame
    \/ FeedEntryFails /\ FeedFrame
    \/ FeedEntryToStore /\ FeedFrame
    \/ FeedEntryEmitted /\ FeedFrame
    \/ FeedStored /\ FeedFrame
    \/ FeedStoreFails /\ FeedFrame

FeedSpecInit ==
    FeedInit /\ ScoreIdle /\ EmbIdle /\ FetchIdle /\ ConcIdle /\ StoreIdle /\ QueryIdle
    /\ ItemIdle /\ RunIdle /\ CatIdle /\ UpsertIdle

SpecFeed == FeedSpecInit /\ [][FeedNext]_vars

\* The entries the loop is done with, in the order it took them.
Processed == [k \in 1..Len(d_log) |-> d_log[k].entry]

\* The entries of the log that were appended to items, in the order of the log.
RECURSIVE EmittedOf(_)
EmittedOf(log) ==
    IF log = <<>> THEN <<>>
    ELSE IF log[Len(log)].outcome = "emitted"
         THEN Append(EmittedOf(SubSeq(log, 1, Len(log) - 1)), log[Len(log)].entry)
         ELSE EmittedOf(SubSeq(log, 1, Len(log) - 1))

MaxClock == 3

\* The columns named in the INSERT of lines 189-193.
InsertColumns ==
    {"id", "source", "source_url", "title", "content", "author", "published",
     "primary_category", "content_type", "word_count", "reading_time_minutes", "embedding",
     "relevance_score", "complexity_score", "source_metadata", "scraped_at"}

\* The columns of the SET list of lines 196-199.
SetColumns == {"embedding", "relevance_score", "source_metadata", "updated_at"}

\* Lines 476-486, 50-103: an item of the id, built at time now; v stands for
\* what the harvest read (title, body, date, category, counts, metadata).
ContentItemOf(v, embedding, score, now) ==
    [id |-> "rss_feed_0cc175b9", source |-> "rss", author |-> "feed",
     source_url |-> <<"url", v>>, title |-> <<"title", v>>, content |-> <<"content", v>>,
     published |-> v, primary_category |-> <<"category", v>>, content_type |-> "short",
     word_count |-> 10 * v, reading_time_minutes |-> 1, embedding |-> embedding,
     relevance_score |-> score, complexity_score |-> 5, source_metadata |-> <<"metadata", v>>,
     scraped_at |-> now]

\* A slip: the SET list names scraped_at too.
InsertContentItem_scraped_refreshed(row, item, now) ==
    IF row.present
    THEN [row EXCEPT !.embedding = item.embedding,
                     !.relevance_score = item.relevance_score,
                     !.source_metadata = item.source_metadata,
                     !.scraped_at = item.scraped_at,
                     !.updated_at = now]
    ELSE [c \in InsertColumns \cup {"present", "updated_at"} |->
            IF c = "present" THEN TRUE ELSE IF c = "updated_at" THEN -1 ELSE item[c]]

\* Lines 188-206: INSERT INTO content_items (...) VALUES ($1, ..., $16)
\* ON CONFLICT (id) DO UPDATE SET embedding, relevance_score,
\* source_metadata = EXCLUDED..., updated_at = NOW().  A new row takes the
\* sixteen values (updated_at is left to the table, written -1 here).
InsertContentItem(row, item, now) ==
    IF row.present
    THEN [row EXCEPT !.embedding = item.embedding,
                     !.relevance_score = item.relevance_score,
                     !.source_metadata = item.source_metadata,
                     !.updated_at = now]
    ELSE [c \in InsertColumns \cup {"present", "updated_at"} |->
            IF c = "present" THEN TRUE ELSE IF c = "updated_at" THEN -1 ELSE item[c]]

\* Line 292: WHERE scraped_at > NOW() - INTERVAL 'hours hours'
ScrapedWithin(row, now, hours) == row.scraped_at > now - hours

UpsertInit ==
    /\ u_pc = "idle"
    /\ u_row = NoContentRow
    /\ u_item = NoContentItem
    /\ u_first = NoContentItem
    /\ u_now = 0
    /\ u_nstores = 0

\* An hour passes.
UpsertTick ==
    /\ u_pc # "off"
    /\ u_now < MaxClock
    /\ u_now' = u_now + 1
    /\ UNCHANGED <<u_pc, u_row, u_item, u_first, u_nstores>>

\* Lines 476-491, 178-187: a harvest builds an item of the id and
\* store_content_item computes its embedding and score; the insert is awaited.
UpsertHarvested(v, embedding, score) ==
    /\ u_pc = "idle"
    /\ u_nstores < MaxStores
    /\ u_item' = ContentItemOf(v, embedding, score, u_now)
    /\ u_pc' = "insert"
    /\ UNCHANGED <<u_row, u_first, u_now, u_nstores>>

\* Lines 187-208: the statement is executed.
UpsertExecuted ==
    /\ u_pc = "insert"
    /\ u_row' = InsertContentItem(u_row, u_item, u_now)
    /\ u_first' = IF u_row.present THEN u_first ELSE u_item
    /\ u_nstores' = u_nstores + 1
    /\ u_pc' = "idle"
    /\ UNCHANGED <<u_item, u_now>>

\* Lines 187-212: acquire or execute raises; False is returned.
UpsertExecFails ==
    /\ u_pc = "insert"
    /\ u_nstores' = u_nstores + 1
    /\ u_pc' = "idle"
    /\ UNCHANGED <<u_row, u_item, u_first, u_now>>

UpsertFrame ==
    UNCHANGED <<scoreVars, embVars, fetchVars, concVars, storeVars, queryVars, itemVars,
                runVars, catVars, feedVars>>

UpsertNext ==
    \/ UpsertTick /\ UpsertFrame
    \/ \E v \in 1..2, embedding \in Vectors, score \in {3, 7} :
            UpsertHarvested(v, embedding, score) /\ UpsertFrame
    \/ UpsertExecuted /\ UpsertFrame
    \/ UpsertExecFails /\ UpsertFrame

UpsertSpecInit ==
    UpsertInit /\ ScoreIdle /\ EmbIdle /\ FetchIdle /\ ConcIdle /\ StoreIdle /\ QueryIdle
    /\ ItemIdle /\ RunIdle /\ CatIdle /\ FeedIdle

SpecUpsert == UpsertSpecInit /\ [][UpsertNext]_vars

\* C37: whatever stores hit the existing id, every column of the row outside
\* the SET list (title, content, author, published, category, word_count and
\* scraped_at among them) holds the value of the insert that created the row,
\* so the row is in the scraped_at window of get_high_quality_content exactly
\* when that first insert's scraped_at is: a later store never brings it back.
C37_ConflictKeepsFirstInsert ==
    u_row.present =>
        /\ \A c \in InsertColumns \ SetColumns : u_row[c] = u_first[c]
        /\ \A hours \in 0..MaxHours :
                ScrapedWithin(u_row, u_now, hours) <=> u_first.scraped_at > u_now - hours

\* The row was created, left the window, and was then stored again from a
\* fresh harvest with another title and embedding: it is still outside.
C37_Witness ==
    /\ u_pc = "idle"
    /\ u_row.present
    /\ u_row.updated_at = u_now
    /\ u_item.scraped_at = u_now
    /\ u_item.title # u_row.title
    /\ u_row.embedding = u_item.embedding
    /\ u_row.embedding # u_first.embedding
    /\ ~ScrapedWithin(u_row, u_now, MaxHours)
    /\ ScrapedWithin(u_item, u_now, 1)

\* C30, as stated: the harvests are made in the order of Planned, one attempt
\* per source, and once the run is past its two loops every handle and every
\* feed has been attempted, whatever failed before.
C30_AllSourcesAttempted ==
    /\ Len(r_attempts) <= Len(Planned)
    /\ \A i \in 1..Len(r_attempts) : r_attempts[i].source = Planned[i]
    /\ (InitializeSucceeded /\ r_pc \in {"query", "close", "done"})
            => Len(r_attempts) = Len(Planned)

====
